---- MODULE Spec2Model ----
(***************************************************************************)
(* EntityTreeRenderer (EntityTreeRenderer.cpp): the enter/leave tracker,   *)
(* the recheck policy, the containment resolver and the LayeredZones set.  *)
(*                                                                         *)
(* Units.  Lengths are in units of ZONE_CHECK_DISTANCE and times in units  *)
(* of half a ZONE_CHECK_INTERVAL; the two thresholds are declared in       *)
(* EntityTreeRenderer.h and only used in the .cpp (lines 292, 293).        *)
(* Positions are glm::vec3 values, modelled as triples of integers.        *)
(*                                                                         *)
(* Time.  The clock is read by checkEnterLeaveEntities only, and only the  *)
(* difference now - _lastZoneCheck is ever used (line 293), so the state   *)
(* holds that difference as of the latest reading of the clock; it is kept *)
(* up to ZONE_CHECK_INTERVAL + 1, beyond which the code cannot tell two    *)
(* values apart.  The clock never runs backwards.                          *)
(*                                                                         *)
(* Observation.  fired holds what the last step emitted and called, call   *)
(* says which operation the last step was, whether it ran the resolver     *)
(* (recheck), what it returned (ret) and, for checkEnterLeaveEntities,     *)
(* which step came right before it (after).                                *)
(*                                                                         *)
(* Specifications.  Spec is the renderer with its tree, signals and clock; *)
(* LiveSpec adds the fairness of the frames.  ZoneSpec calls the           *)
(* operations of the class LayeredZones one at a time, in any order;       *)
(* UpdateSpec is the renderer as it uses the class, updateZone and the     *)
(* rechecks, while the domain edits its zones.                             *)
(* ResolverSpec is the resolver and the publisher while zones come, hide   *)
(* and show and the scene may go; LockSpec takes checkEnterLeaveEntities   *)
(* and updateZone apart into steps, with the network thread writing the    *)
(* tree under its lock; LifeSpec runs from construction to shutdown with   *)
(* updateZone called for any id.  PointerSpec is the renderer after init() *)
(* with the mouse handlers, update() and the script slots; WebSpec is the  *)
(* web entities of RenderableWebEntityItem.cpp, their surfaces and their   *)
(* counter.                                                                *)
(***************************************************************************)
EXTENDS Integers, Sequences, FiniteSets, TLC

\* ------------------------------------------------------------------ bounds
\* the clock is read at most MaxStep units after its previous reading
MaxStep == 3
\* capacity of the queue of queued-connection signals waiting for the owner thread
MaxQueue == 1

\* ------------------------------------------------------- program constants
\* movedEnough threshold (line 292), the unit of length
ZONE_CHECK_DISTANCE == 1
\* enoughTimeElapsed threshold (line 293), two clock units
ZONE_CHECK_INTERVAL == 2
\* TREE_SCALE (line 348) in units of ZONE_CHECK_DISTANCE
TREE_SCALE == 32768000

\* ------------------------------------------------------------ the entities
\* the entities the tree can hold (two zones, a scripted box, a box without
\* a script); ids are ordered as QUuid values are
Z1 == 1
Z2 == 2
S3 == 3
B4 == 4
Ids == {Z1, Z2, S3, B4}
IdSeq == <<Z1, Z2, S3, B4>>

\* entity->getType() == EntityTypes::Zone
IsZone(e) == e \in {Z1, Z2}
\* !entity->getScript().isEmpty()
HasScript(e) == e = S3
\* the zones among them
Zones == {e \in Ids : IsZone(e)}
\* the volume estimates a zone takes
VolumeEstimates == {5, 10}
\* the volume estimate each zone is created with
FirstVolume(e) == IF e = Z1 THEN 10 ELSE 5

VARIABLE
    volume                  \* the current volume estimate of each zone

\* the zone's volume estimate, the key of a LayeredZone
Volume(e) == volume[e]

\* the viewpoints the avatar takes
P0 == <<0, 0, 0>>
P1 == <<1, 0, 0>>
P2 == <<2, 0, 0>>
ViewPoints == {P0, P1, P2}

\* entity->contains(point): the exact containment test
Contains(e, p) ==
    CASE e = Z1 -> p \in {P0, P1, P2}
      [] e = Z2 -> p \in {P0, P1}
      [] e = B4 -> p \in {P0, P1}
      [] OTHER  -> p = P0

\* EntityTree::findEntities(point, radius, found): the broad phase
Near(e, p) == Contains(e, p) \/ (e = S3 /\ p = P1)

\* glm::vec3 + glm::vec3(s)
VecAddScalar(p, s) == <<p[1] + s, p[2] + s, p[3] + s>>

Abs(x) == IF x < 0 THEN -x ELSE x

\* glm::distance(a, b) > d, computed on squares once every component is within d
DistanceGreater(a, b, d) ==
    LET dx == Abs(a[1] - b[1])
        dy == Abs(a[2] - b[2])
        dz == Abs(a[3] - b[3])
    IN  IF dx > d \/ dy > d \/ dz > d
        THEN TRUE
        ELSE dx * dx + dy * dy + dz * dz > d * d

\* --------------------------------------------------------------- LayeredZones
\* iterator values: end(), a node of the set, or a value that is neither
END == [k |-> "end"]
INVALID == [k |-> "invalid"]
NodeRef(l) == [k |-> "node", id |-> l.id, volume |-> l.volume]

\* LayeredZone(zone): id and volume
LayeredZone(e) == [id |-> e, volume |-> Volume(e)]

\* LayeredZone::operator< : std::tie(volume, id)
LayerLess(a, b) == a.volume < b.volume \/ (a.volume = b.volume /\ a.id < b.id)

\* a freshly constructed LayeredZones
EmptyLayeredZones == [set |-> <<>>, map |-> <<>>, sky |-> END]

\* as SetInsertSorted, the new element put last
SetInsertSorted_back(s, l) == Append(s, l)

\* std::set<LayeredZone>::insert : position of the new element
RECURSIVE SetInsertSorted(_, _)
SetInsertSorted(s, l) ==
    IF s = <<>> THEN <<l>>
    ELSE IF LayerLess(l, Head(s)) THEN <<l>> \o s
    ELSE <<Head(s)>> \o SetInsertSorted(Tail(s), l)

\* an equivalent element (neither less than the other) is already stored
SetHasEquivalent(s, l) ==
    \E i \in 1..Len(s) : ~LayerLess(s[i], l) /\ ~LayerLess(l, s[i])

\* _map.emplace(id, it): keeps an existing entry
MapEmplace(m, id, node) ==
    IF id \in DOMAIN m THEN m
    ELSE [x \in (DOMAIN m) \cup {id} |-> IF x = id THEN node ELSE m[x]]

\* LayeredZones::insert
LZInsert(lz, l) ==
    IF SetHasEquivalent(lz.set, l)
    THEN lz
    ELSE [lz EXCEPT !.set = SetInsertSorted(lz.set, l),
                    !.map = MapEmplace(lz.map, l.id, NodeRef(l))]

\* as LZClear, without the assignment of line 999
LZClear_marker(lz) == [set |-> <<>>, map |-> <<>>, sky |-> lz.sky]

\* LayeredZones::clear
LZClear(lz) == [set |-> <<>>, map |-> <<>>, sky |-> END]

\* as LZMoved, the marker of the new object always at end()
LZMoved_end(other) == [set |-> other.set, map |-> other.map, sky |-> END]

\* LayeredZones(LayeredZones&& other): the new object
LZMoved(other) ==
    LET isSkyboxLayerValid == other.sky # END
    IN  [set |-> other.set, map |-> other.map,
         sky |-> IF isSkyboxLayerValid THEN other.sky ELSE END]

\* index of the node an iterator refers to, 0 when it is no node of s
NodeIndex(s, it) ==
    IF it.k = "node" /\ \E i \in 1..Len(s) : s[i].id = it.id /\ s[i].volume = it.volume
    THEN CHOOSE i \in 1..Len(s) : s[i].id = it.id /\ s[i].volume = it.volume
    ELSE 0

\* std::distance(other.begin(), other._skyboxLayer), -1 when the walk never ends
SkyOffset(other) ==
    IF other.sky = END THEN Len(other.set)
    ELSE IF NodeIndex(other.set, other.sky) > 0 THEN NodeIndex(other.set, other.sky) - 1
    ELSE -1

\* LayeredZone::operator== : the layers agree in id and volume
LayerEq(a, b) == a.id = b.id /\ a.volume = b.volume

\* LayeredZones::contains(other): the set of outcomes [result, lz].
\* std::equal(other.begin(), other._skyboxLayer, begin()) stops at the first
\* position where the layers differ.  It reads this set at end() when this set
\* is shorter than the range of other, and it walks off other when other's
\* marker is no node of other: both are undefined, either result can come out.
LZContains(lz, other) ==
    LET n == SkyOffset(other)
        Stops(i) == i > Len(lz.set) \/ ~LayerEq(other.set[i], lz.set[i])
        first == IF n > 0 /\ \E i \in 1..n : Stops(i)
                 THEN CHOOSE i \in 1..n : Stops(i) /\ \A j \in 1..(i - 1) : ~Stops(j)
                 ELSE 0
        overrun == n < 0 \/ first > Len(lz.set)
        moved == IF n >= 0 /\ n < Len(lz.set) THEN NodeRef(lz.set[n + 1]) ELSE END
    IN  IF overrun
        THEN {[result |-> FALSE, lz |-> lz], [result |-> TRUE, lz |-> [lz EXCEPT !.sky = INVALID]]}
        ELSE IF first > 0
        THEN {[result |-> FALSE, lz |-> lz]}
        ELSE {[result |-> TRUE, lz |-> [lz EXCEPT !.sky = moved]]}

\* as LZErase, without the two erasures
LZErase_kept(lz, layer) == lz

\* std::set::erase(layer) and _map.erase(it), lines 1038-1039: the node is
\* destroyed, and a marker that referred to it refers to nothing from then on
LZErase(lz, layer) ==
    [set |-> SelectSeq(lz.set, LAMBDA x : ~(x.id = layer.id /\ x.volume = layer.volume)),
     map |-> [x \in (DOMAIN lz.map) \ {layer.id} |-> lz.map[x]],
     sky |-> IF lz.sky = layer THEN INVALID ELSE lz.sky]

\* as UpdateNeedsErase, without the test of the visibility
UpdateNeedsErase_volumeOnly(zoneLayer, layer, isVisible) ==
    zoneLayer.volume # layer.volume

\* as UpdateNeedsErase, whatever the volume and the visibility
UpdateNeedsErase_always(zoneLayer, layer, isVisible) == TRUE

\* the condition of line 1037: the layer found for the zone has to go
UpdateNeedsErase(zoneLayer, layer, isVisible) ==
    zoneLayer.volume # layer.volume \/ ~isVisible

\* LayeredZones::update(zone), lines 1018-1050, for the zone whose fresh layer
\* is zoneLayer and whose isVisible() is isVisible
LZUpdate(lz, zoneLayer, isVisible) ==
    IF lz.set = <<>> /\ isVisible
    THEN LZInsert(lz, zoneLayer)
    ELSE LET found == zoneLayer.id \in DOMAIN lz.map
             erased == found /\ UpdateNeedsErase(zoneLayer, lz.map[zoneLayer.id], isVisible)
             kept == IF erased THEN LZErase(lz, lz.map[zoneLayer.id]) ELSE lz
             atEnd == ~found \/ erased
             inserted == LZInsert(kept, zoneLayer)
         IN  IF atEnd /\ isVisible
             THEN [inserted EXCEPT !.map = MapEmplace(inserted.map, zoneLayer.id, NodeRef(zoneLayer))]
             ELSE kept

\* the object a LayeredZones is left as when another is move-constructed from
\* it (lines 982-994): it holds the set and the map of the new object, both
\* empty, and its marker as it was.  A marker at a node now refers to a node
\* of the other object; a marker at end() was invalidated by the swap and may
\* or may not compare equal to end() afterwards.
LZMovedFrom(other) ==
    {[set |-> <<>>, map |-> <<>>, sky |-> m] :
        m \in (IF other.sky = END THEN {END, INVALID} ELSE {other.sky})}

\* ------------------------------------------------------------------- state
VARIABLES
    _tree,                  \* the renderer has a tree (OctreeProcessor::_tree)
    _shuttingDown,
    _wantScripts,
    _entitiesScriptEngine,  \* a script engine is attached
    scene,                  \* _viewState->getMain3DScene() is not null
    entities,               \* the ids of the entities in the tree
    visible,                \* the ids of the entities with getVisible()
    _entitiesInScene,       \* keys of _entitiesInScene
    viewPos,                \* _viewState->getAvatarPosition()
    _avatarPosition,
    sinceZoneCheck,         \* usecTimestampNow() - _lastZoneCheck at the latest reading
    _currentEntitiesInside,
    _layeredZones,
    rankedZones,            \* the selection "RankedZones" last enqueued to the scene
    queue,                  \* queued addingEntity / deletingEntity signals
    fired,                  \* notifications and script calls of the last operation
    notified,               \* ids whose most recent notification is enterEntity
    call,                   \* the last operation of the renderer and what it did
    oldLayeredZones,        \* the LayeredZones move-constructed from _layeredZones (line 226)
    treeLock,               \* the read-write lock of the tree: free, read or write
    pc,                     \* where the owner thread is in the operation it runs
    local,                  \* the local variables of the operation the owner thread runs
    _currentHoverOverEntityID,   \* the entity under the pointer at the last move, or UNKNOWN_ENTITY_ID
    _currentClickingOnEntityID,  \* the entity pressed and not yet released, or UNKNOWN_ENTITY_ID
    _lastPointerEventValid,
    webItems,               \* the RenderableWebEntityItem objects that exist
    _webSurface,            \* those of them whose _webSurface is not null
    _lastRenderTime,        \* _lastRenderTime of each
    _currentWebCount,       \* the file-scope counter of RenderableWebEntityItem.cpp (line 32)
    clock                   \* usecTimestampNow()

vars == <<_tree, _shuttingDown, _wantScripts, _entitiesScriptEngine, scene, entities,
          visible, _entitiesInScene, viewPos, _avatarPosition, sinceZoneCheck,
          _currentEntitiesInside, _layeredZones, rankedZones, queue, fired, notified, call,
          volume, oldLayeredZones, treeLock, pc, local,
          _currentHoverOverEntityID, _currentClickingOnEntityID, _lastPointerEventValid,
          webItems, _webSurface, _lastRenderTime, _currentWebCount, clock>>

\* what only the operations of LayeredZones and the edits of a zone change
zoneVars == <<volume, oldLayeredZones>>

\* the lock of the tree and the position of the owner thread, which only the
\* steps of an operation taken apart change
lockVars == <<treeLock, pc, local>>

\* what only the mouse handlers and the replay of update() change
pointerVars == <<_currentHoverOverEntityID, _currentClickingOnEntityID, _lastPointerEventValid>>

\* the web entities, their surfaces and the clock they read
webVars == <<webItems, _webSurface, _lastRenderTime, _currentWebCount, clock>>

\* the locals of findBestZoneAndMaybeContainingEntities and of updateZone
\* before they are set: foundEntities and the part of it still to visit,
\* entitiesContainingAvatar, zone, didUpdate, and the path taken out of the
\* lambda
NoZone == 0
NoLocals == [found |-> <<>>, ids |-> <<>>, zone |-> NoZone, didUpdate |-> FALSE, exit |-> "-"]

\* the owner thread is between two operations, nobody holds the lock
NoThreadAtWork == treeLock = "free" /\ pc = "idle" /\ local = NoLocals

\* UNKNOWN_ENTITY_ID, the id that isInvalidID()
UNKNOWN_ENTITY_ID == 0

\* the web entities the factory can create
W1 == 11
W2 == 12
W3 == 13
WebIds == {W1, W2, W3}

\* no pointer event seen yet (constructor, lines 75-76) and no web entity
\* created yet, the counter as RenderableWebEntityItem.cpp initializes it
\* (line 32)
NoPointerNoWeb ==
    /\ _currentHoverOverEntityID = UNKNOWN_ENTITY_ID
    /\ _currentClickingOnEntityID = UNKNOWN_ENTITY_ID
    /\ _lastPointerEventValid = FALSE
    /\ webItems = {}
    /\ _webSurface = {}
    /\ _lastRenderTime = [w \in WebIds |-> 0]
    /\ _currentWebCount = 0
    /\ clock = 0

\* the variables of the environment: tree, view state and clock
envVars == <<scene, entities, visible, viewPos, queue>>

\* the members of the renderer
rendererVars == <<_tree, _shuttingDown, _wantScripts, _entitiesScriptEngine, _entitiesInScene,
                  _avatarPosition, sinceZoneCheck, _currentEntitiesInside, _layeredZones,
                  rankedZones>>

\* the set of the elements of a sequence
Range(s) == {s[i] : i \in 1..Len(s)}

\* what a step other than a call of checkEnterLeaveEntities leaves in call
Called(op) == [op |-> op, recheck |-> FALSE, ret |-> FALSE, after |-> "-"]

\* what the step before a call of checkEnterLeaveEntities was
Before == IF call.op = "checkEnterLeaveEntities"
          THEN (IF call.recheck THEN "recheck" ELSE "skip")
          ELSE IF call.op \in {"forceRecheckEntities", "addingEntity", "deletingEntity",
                               "updateZone"}
          THEN call.op
          ELSE "-"

\* a time difference as the state keeps it
Saturated(t) == IF t > ZONE_CHECK_INTERVAL THEN ZONE_CHECK_INTERVAL + 1 ELSE t

\* the state after construction (constructor, lines 49-77, and the member initializers)
Init ==
    /\ _tree = FALSE
    /\ _shuttingDown = FALSE
    /\ _wantScripts \in BOOLEAN
    /\ _entitiesScriptEngine = FALSE
    /\ scene \in BOOLEAN
    /\ entities = {}
    /\ visible = Ids
    /\ _entitiesInScene = {}
    /\ viewPos = P0
    /\ _avatarPosition = <<0, 0, 0>>
    /\ sinceZoneCheck = Saturated(ZONE_CHECK_INTERVAL + 1)
    /\ _currentEntitiesInside = <<>>
    /\ _layeredZones = EmptyLayeredZones
    /\ rankedZones = <<>>
    /\ queue = <<>>
    /\ fired = <<>>
    /\ notified = {}
    /\ call = Called("constructor")
    /\ volume = [z \in Zones |-> FirstVolume(z)]
    /\ oldLayeredZones = EmptyLayeredZones
    /\ NoThreadAtWork
    /\ NoPointerNoWeb

\* --------------------------------------------------- Containment Resolver
\* findEntities(_avatarPosition, radius, foundEntities), line 224
FoundEntities(p) == SelectSeq(IdSeq, LAMBDA e : e \in entities /\ Near(e, p))

\* as ContainingIDs, without the test of line 238
ContainingIDs_unfiltered(p) == SelectSeq(FoundEntities(p), LAMBDA e : Contains(e, p))

\* the ids appended to entitiesContainingAvatar, lines 230-244
ContainingIDs(p) ==
    SelectSeq(FoundEntities(p), LAMBDA e : (IsZone(e) \/ HasScript(e)) /\ Contains(e, p))

\* getRenderItemID() != render::Item::INVALID_ITEM_ID (line 249): a zone has
\* a render item while it is in the scene
IsValidRenderID(e) == e \in _entitiesInScene

\* as ZonesToInsert, without the test of getVisible() of line 247
ZonesToInsert_hidden(p) ==
    SelectSeq(ContainingIDs(p), LAMBDA e : IsZone(e) /\ IsValidRenderID(e))

\* the zones inserted into the cleared _layeredZones, lines 247-254
ZonesToInsert(p) ==
    SelectSeq(ContainingIDs(p), LAMBDA e : IsZone(e) /\ e \in visible /\ IsValidRenderID(e))

\* the inserts of the loop, in order
RECURSIVE InsertAll(_, _)
InsertAll(lz, zs) ==
    IF zs = <<>> THEN lz ELSE InsertAll(LZInsert(lz, LayeredZone(Head(zs))), Tail(zs))

\* getRenderItemID() of a zone
RenderItemID(e) == 100 + e

\* as Transactions, with one transaction for every layer
Transactions_perLayer(lz) ==
    IF scene
    THEN [i \in 1..Len(lz.set) |->
             [selection |-> "RankedZones", list |-> <<RenderItemID(lz.set[i].id)>>]]
    ELSE <<>>

\* as Transactions, with whatever part of the list there is sent when the
\* scene is not there
Transactions_partial(lz) ==
    <<[selection |-> "RankedZones",
       list |-> [i \in 1..(IF scene THEN Len(lz.set) ELSE Len(lz.set) - 1) |->
                    RenderItemID(lz.set[i].id)]]>>

\* applyLayeredZones (lines 351-373): the transactions it enqueues to the
\* scene, each a resetSelection of a named selection to a list of item ids
Transactions(lz) ==
    IF scene
    THEN <<[selection |-> "RankedZones",
            list |-> [i \in 1..Len(lz.set) |-> RenderItemID(lz.set[i].id)]]>>
    ELSE <<>>

\* the selection "RankedZones" of the scene after the transactions ts, in
\* the order they were enqueued
RECURSIVE SelectionAfter(_, _)
SelectionAfter(sel, ts) ==
    IF ts = <<>> THEN sel ELSE SelectionAfter(Head(ts).list, Tail(ts))

\* applyLayeredZones (lines 351-373): the selection after the call
ApplyLayeredZones(lz, sel) == SelectionAfter(sel, Transactions(lz))

\* as FindBestZone, with contains() consulted whatever the two sets hold
FindBestZone_compared(p) ==
    LET old == LZMoved(_layeredZones)
        rebuilt == InsertAll(LZClear(_layeredZones), ZonesToInsert(p))
        ids == ContainingIDs(p)
    IN  {IF c.result
         THEN [didUpdate |-> FALSE, ids |-> ids, lz |-> c.lz, sel |-> rankedZones]
         ELSE [didUpdate |-> TRUE, ids |-> ids, lz |-> c.lz,
               sel |-> ApplyLayeredZones(c.lz, rankedZones)] :
            c \in LZContains(rebuilt, old)}

\* findBestZoneAndMaybeContainingEntities (lines 214-278), the body run under
\* the read lock: the set of outcomes [didUpdate, ids, lz, sel]
FindBestZone(p) ==
    LET old == LZMoved(_layeredZones)
        rebuilt == InsertAll(LZClear(_layeredZones), ZonesToInsert(p))
        ids == ContainingIDs(p)
        Kept(lz) == [didUpdate |-> FALSE, ids |-> ids, lz |-> lz, sel |-> rankedZones]
        Applied(lz) == [didUpdate |-> TRUE, ids |-> ids, lz |-> lz,
                        sel |-> ApplyLayeredZones(lz, rankedZones)]
    IN  IF rebuilt.set = <<>>
        THEN IF old.set = <<>> THEN {Kept(rebuilt)} ELSE {Applied(rebuilt)}
        ELSE IF old.set # <<>>
        THEN {IF c.result THEN Kept(c.lz) ELSE Applied(c.lz) :
                 c \in LZContains(rebuilt, old)}
        ELSE {Applied(rebuilt)}

\* ------------------------------------------------- Enter/Leave Event Tracker
\* emit <name>(id), then the script call when an engine is attached
\* (lines 308-311, 318-321, 335-338)
Notify(name, id) ==
    <<[sig |-> "emit", name |-> name, id |-> id]>> \o
    (IF _entitiesScriptEngine THEN <<[sig |-> "call", name |-> name, id |-> id]>> ELSE <<>>)

RECURSIVE NotifyEach(_, _)
NotifyEach(name, ids) ==
    IF ids = <<>> THEN <<>> ELSE Notify(name, Head(ids)) \o NotifyEach(name, Tail(ids))

\* the first loop of a recheck, lines 306-313
LeaveEvents(prev, cur) ==
    NotifyEach("leaveEntity", SelectSeq(prev, LAMBDA e : e \notin Range(cur)))

\* as EnterEvents, without the test of line 317
EnterEvents_untested(prev, cur) == NotifyEach("enterEntity", cur)

\* the second loop of a recheck, lines 316-323
EnterEvents(prev, cur) ==
    NotifyEach("enterEntity", SelectSeq(cur, LAMBDA e : e \notin Range(prev)))

\* as RecheckEvents, with the two loops in the other order
RecheckEvents_swapped(prev, cur) == EnterEvents(prev, cur) \o LeaveEvents(prev, cur)

\* everything a recheck fires, lines 306-323
RecheckEvents(prev, cur) == LeaveEvents(prev, cur) \o EnterEvents(prev, cur)

\* as StoredAfterRecheck, without the assignment of line 324
StoredAfterRecheck_kept(prev, cur) == prev

\* _currentEntitiesInside = entitiesContainingAvatar, line 324
StoredAfterRecheck(prev, cur) == cur

\* as ShouldRecheck, with && for the || of line 295
ShouldRecheck_both(avatarPosition, elapsed) ==
    /\ DistanceGreater(avatarPosition, _avatarPosition, ZONE_CHECK_DISTANCE)
    /\ elapsed > ZONE_CHECK_INTERVAL

\* as ShouldRecheck, without the test of the elapsed time
ShouldRecheck_movedOnly(avatarPosition, elapsed) ==
    DistanceGreater(avatarPosition, _avatarPosition, ZONE_CHECK_DISTANCE)

\* movedEnough || enoughTimeElapsed, lines 292-295
ShouldRecheck(avatarPosition, elapsed) ==
    LET movedEnough == DistanceGreater(avatarPosition, _avatarPosition, ZONE_CHECK_DISTANCE)
        enoughTimeElapsed == elapsed > ZONE_CHECK_INTERVAL
    IN  movedEnough \/ enoughTimeElapsed

\* as SinceAfterRecheck, without the assignment of line 297
SinceAfterRecheck_stale(elapsed) == elapsed

\* _lastZoneCheck = now (line 297): the clock is that much past _lastZoneCheck
SinceAfterRecheck(elapsed) == 0

\* the ids whose latest notification is enterEntity, after the events evs
RECURSIVE NotifiedAfter(_, _)
NotifiedAfter(n, evs) ==
    IF evs = <<>> THEN n
    ELSE LET e == Head(evs)
         IN  NotifiedAfter(IF e.sig # "emit" THEN n
                           ELSE IF e.name = "enterEntity" THEN n \cup {e.id}
                           ELSE n \ {e.id},
                           Tail(evs))

\* checkEnterLeaveEntities (lines 280-328), called when d clock units have
\* passed since the previous reading of usecTimestampNow() (line 282), and
\* followed in the same operation by the emissions and calls rest
CheckEnterLeaveThen(d, rest) ==
    LET elapsed == Saturated(sinceZoneCheck + d)
    IN  /\ IF _tree /\ ~_shuttingDown /\ ShouldRecheck(viewPos, elapsed)
           THEN \E r \in FindBestZone(viewPos) :
                   /\ _avatarPosition' = viewPos
                   /\ sinceZoneCheck' = SinceAfterRecheck(elapsed)
                   /\ _layeredZones' = r.lz
                   /\ rankedZones' = r.sel
                   /\ fired' = RecheckEvents(_currentEntitiesInside, r.ids) \o rest
                   /\ notified' = NotifiedAfter(notified,
                                                RecheckEvents(_currentEntitiesInside, r.ids))
                   /\ _currentEntitiesInside' = StoredAfterRecheck(_currentEntitiesInside, r.ids)
                   /\ call' = [op |-> "checkEnterLeaveEntities", recheck |-> TRUE,
                               ret |-> r.didUpdate, after |-> Before]
                   /\ UNCHANGED <<_tree, _shuttingDown, _wantScripts, _entitiesScriptEngine,
                                  _entitiesInScene>>
           ELSE /\ sinceZoneCheck' = elapsed
                /\ fired' = rest
                /\ call' = [op |-> "checkEnterLeaveEntities", recheck |-> FALSE,
                            ret |-> FALSE, after |-> Before]
                /\ UNCHANGED <<_tree, _shuttingDown, _wantScripts, _entitiesScriptEngine,
                               _entitiesInScene, _avatarPosition, _currentEntitiesInside,
                               _layeredZones, rankedZones, notified>>
        /\ UNCHANGED <<envVars, zoneVars, lockVars, pointerVars, webVars>>

\* checkEnterLeaveEntities (lines 280-328) alone
checkEnterLeaveEntities(d) == CheckEnterLeaveThen(d, <<>>)

\* as ForcedPosition, without the displacement
ForcedPosition_same(p) == p

\* the position forceRecheckEntities stores, line 348
ForcedPosition(p) == VecAddScalar(p, TREE_SCALE)

\* as forceRecheckEntities, with the time of the last check set long ago too
forceRecheckEntities_reset ==
    /\ _avatarPosition' = ForcedPosition(viewPos)
    /\ sinceZoneCheck' = Saturated(ZONE_CHECK_INTERVAL + 1)
    /\ fired' = <<>>
    /\ call' = Called("forceRecheckEntities")
    /\ UNCHANGED <<zoneVars, lockVars, pointerVars, webVars>>
    /\ UNCHANGED <<_tree, _shuttingDown, _wantScripts, _entitiesScriptEngine, _entitiesInScene,
                   _currentEntitiesInside, _layeredZones, rankedZones>>
    /\ UNCHANGED <<envVars, notified>>

\* forceRecheckEntities, lines 345-349
forceRecheckEntities ==
    /\ _avatarPosition' = ForcedPosition(viewPos)
    /\ fired' = <<>>
    /\ call' = Called("forceRecheckEntities")
    /\ UNCHANGED <<zoneVars, lockVars, pointerVars, webVars>>
    /\ UNCHANGED <<_tree, _shuttingDown, _wantScripts, _entitiesScriptEngine, _entitiesInScene,
                   sinceZoneCheck, _currentEntitiesInside, _layeredZones, rankedZones>>
    /\ UNCHANGED <<envVars, notified>>

\* as LeaveAllGuard, without the test of _shuttingDown
LeaveAllGuard_anytime(shuttingDown) == _tree

\* the guard of leaveAllEntities (line 331) under a given value of _shuttingDown
LeaveAllGuard(shuttingDown) == _tree /\ ~shuttingDown

\* as InsideAfterLeaveAll, without the clear() of line 340
InsideAfterLeaveAll_kept == _currentEntitiesInside

\* _currentEntitiesInside.clear(), line 340
InsideAfterLeaveAll == <<>>

\* leaveAllEntities (lines 330-343): what it fires and stores
LeaveAll(shuttingDown) ==
    IF LeaveAllGuard(shuttingDown)
    THEN [fired |-> NotifyEach("leaveEntity", _currentEntitiesInside),
          inside |-> InsideAfterLeaveAll,
          pos |-> ForcedPosition(viewPos)]
    ELSE [fired |-> <<>>, inside |-> _currentEntitiesInside, pos |-> _avatarPosition]

\* leaveAllEntities, lines 330-343
leaveAllEntities ==
    /\ fired' = LeaveAll(_shuttingDown).fired
    /\ notified' = NotifiedAfter(notified, fired')
    /\ _currentEntitiesInside' = LeaveAll(_shuttingDown).inside
    /\ _avatarPosition' = LeaveAll(_shuttingDown).pos
    /\ call' = Called("leaveAllEntities")
    /\ UNCHANGED <<zoneVars, lockVars, pointerVars, webVars>>
    /\ UNCHANGED <<_tree, _shuttingDown, _wantScripts, _entitiesScriptEngine, _entitiesInScene,
                   sinceZoneCheck, _layeredZones, rankedZones>>
    /\ UNCHANGED envVars

\* the body of clear (lines 115-152) under a given value of _shuttingDown.
\* resetEntitiesScriptEngine (line 127) attaches a new engine; without it the
\* stopped engine stays attached.  The scene transaction of lines 131-145
\* removes render items and leaves the selection alone.  OctreeProcessor::clear
\* (line 151) erases the elements of the tree.
ClearBody(shuttingDown) ==
    /\ fired' = LeaveAll(shuttingDown).fired
    /\ notified' = NotifiedAfter(notified, fired')
    /\ _currentEntitiesInside' = LeaveAll(shuttingDown).inside
    /\ _avatarPosition' = LeaveAll(shuttingDown).pos
    /\ _entitiesScriptEngine' = (_entitiesScriptEngine \/ (_wantScripts /\ ~shuttingDown))
    /\ _entitiesInScene' = {}
    /\ _layeredZones' = LZClear(_layeredZones)
    /\ entities' = (IF _tree THEN {} ELSE entities)
    /\ visible' = (IF _tree THEN Ids ELSE visible)
    /\ UNCHANGED <<_tree, _wantScripts, sinceZoneCheck, rankedZones, scene, viewPos, queue>>

\* clear, lines 115-152
clear ==
    /\ ClearBody(_shuttingDown)
    /\ call' = Called("clear")
    /\ UNCHANGED <<zoneVars, lockVars, pointerVars, webVars>>
    /\ UNCHANGED _shuttingDown

\* shutdown, lines 180-187: the flag is set, then clear() runs
shutdown ==
    /\ _shuttingDown' = TRUE
    /\ ClearBody(TRUE)
    /\ call' = Called("shutdown")
    /\ UNCHANGED <<zoneVars, lockVars, pointerVars, webVars>>

\* init (lines 164-178): OctreeProcessor::init makes the tree, the engine is
\* made when scripts are wanted, the signals of the tree are connected
init ==
    /\ ~_tree
    /\ ~_shuttingDown
    /\ _tree' = TRUE
    /\ _entitiesScriptEngine' = (_entitiesScriptEngine \/ _wantScripts)
    /\ _avatarPosition' = ForcedPosition(viewPos)
    /\ fired' = <<>>
    /\ call' = Called("init")
    /\ UNCHANGED <<zoneVars, lockVars, pointerVars, webVars>>
    /\ UNCHANGED <<_shuttingDown, _wantScripts, _entitiesInScene, sinceZoneCheck,
                   _currentEntitiesInside, _layeredZones, rankedZones>>
    /\ UNCHANGED <<envVars, notified>>

\* ------------------------------------------------------ calls of the engine
\* A call _entitiesScriptEngine->method(id) is recorded in fired as the code
\* makes it.  Where the code tests the pointer first the call is made with an
\* engine attached only; where it does not, the call is made on a null
\* QSharedPointer when no engine is attached: that is undefined, the run may
\* end there (a behaviour may stop after any step) or go on.

\* _entitiesScriptEngine->name(id), made without a test of the pointer
EngineCall(name, id) == <<[sig |-> "call", name |-> name, id |-> id]>>

\* emit name(id)
Emit(name, id) == <<[sig |-> "emit", name |-> name, id |-> id]>>

\* if (_entitiesScriptEngine) { calls }
Guarded(calls) == IF _entitiesScriptEngine THEN calls ELSE <<>>

\* checkAndCallPreload(e, reload, unloadFirst), lines 844-862, for an entity
\* whose shouldPreloadScript() is shouldPreload: the calls of the engine
PreloadCalls(e, shouldPreload, unloadFirst) ==
    IF _tree /\ ~_shuttingDown /\ e \in entities
    THEN LET shouldLoad == shouldPreload /\ _entitiesScriptEngine
         IN  (IF (shouldLoad /\ unloadFirst) \/ ~HasScript(e)
              THEN EngineCall("unloadEntityScript", e) ELSE <<>>)
             \o (IF shouldLoad THEN EngineCall("loadEntityScript", e) ELSE <<>>)
    ELSE <<>>

\* addEntityToScene (lines 818-837): the keys of _entitiesInScene after it;
\* every entity here is renderable and addToScene accepts it
AddEntityToScene(e) ==
    IF scene THEN _entitiesInScene \cup {e} ELSE _entitiesInScene

\* addingEntity (lines 809-816), the slot of the queued signal at the head
addingEntity ==
    /\ queue # <<>>
    /\ Head(queue).sig = "addingEntity"
    /\ queue' = Tail(queue)
    /\ _avatarPosition' = ForcedPosition(viewPos)
    /\ _entitiesInScene' = (IF Head(queue).id \in entities
                            THEN AddEntityToScene(Head(queue).id)
                            ELSE _entitiesInScene)
    /\ \E shouldPreload \in BOOLEAN :
          fired' = PreloadCalls(Head(queue).id, shouldPreload, FALSE)
    /\ call' = Called("addingEntity")
    /\ UNCHANGED <<zoneVars, lockVars, pointerVars, webVars>>
    /\ UNCHANGED <<_tree, _shuttingDown, _wantScripts, _entitiesScriptEngine, sinceZoneCheck,
                   _currentEntitiesInside, _layeredZones, rankedZones>>
    /\ UNCHANGED <<scene, entities, visible, viewPos, notified>>

\* deletingEntity (lines 779-807): does it reach forceRecheckEntities (line 801)
DeletingForcesRecheck(e) == e \in _entitiesInScene /\ scene

\* deletingEntity (lines 779-807), the slot of the queued signal at the head
deletingEntity ==
    /\ queue # <<>>
    /\ Head(queue).sig = "deletingEntity"
    /\ queue' = Tail(queue)
    /\ LET e == Head(queue).id
       IN  /\ _entitiesInScene' = (IF e \in _entitiesInScene /\ scene
                                   THEN _entitiesInScene \ {e}
                                   ELSE _entitiesInScene)
           /\ _avatarPosition' = (IF DeletingForcesRecheck(e)
                                  THEN ForcedPosition(viewPos)
                                  ELSE _avatarPosition)
           /\ fired' = (IF e \in _entitiesInScene /\ _tree /\ ~_shuttingDown
                        THEN Guarded(EngineCall("unloadEntityScript", e))
                        ELSE <<>>)
    /\ call' = Called("deletingEntity")
    /\ UNCHANGED <<zoneVars, lockVars, pointerVars, webVars>>
    /\ UNCHANGED <<_tree, _shuttingDown, _wantScripts, _entitiesScriptEngine, sinceZoneCheck,
                   _currentEntitiesInside, _layeredZones, rankedZones>>
    /\ UNCHANGED <<scene, entities, visible, viewPos, notified>>

\* ------------------------------------------------------------ environment
\* the avatar moves
MoveAvatar ==
    /\ \E p \in ViewPoints \ {viewPos} : viewPos' = p
    /\ fired' = <<>>
    /\ UNCHANGED <<rendererVars, scene, entities, visible, queue, notified>>
    /\ call' = Called("environment")
    /\ UNCHANGED <<zoneVars, lockVars, pointerVars, webVars>>

\* The domain sends its scripted box first and never deletes it by itself;
\* zones are added and deleted at any time.
Addable == IF S3 \in entities THEN Zones \ entities ELSE {S3}
Deletable == entities \cap Zones

\* the network thread adds an entity to the tree; the tree emits addingEntity
TreeAddEntity ==
    /\ _tree
    /\ ~_shuttingDown
    /\ Len(queue) < MaxQueue
    /\ \E e \in Addable :
          /\ entities' = entities \cup {e}
          /\ queue' = Append(queue, [sig |-> "addingEntity", id |-> e])
    /\ fired' = <<>>
    /\ UNCHANGED <<rendererVars, scene, visible, viewPos, notified>>
    /\ call' = Called("environment")
    /\ UNCHANGED <<zoneVars, lockVars, pointerVars, webVars>>

\* the network thread deletes an entity; the tree emits deletingEntity
TreeDeleteEntity ==
    /\ _tree
    /\ ~_shuttingDown
    /\ Len(queue) < MaxQueue
    /\ \E e \in Deletable :
          /\ entities' = entities \ {e}
          /\ visible' = visible \cup {e}
          /\ queue' = Append(queue, [sig |-> "deletingEntity", id |-> e])
    /\ fired' = <<>>
    /\ UNCHANGED <<rendererVars, scene, viewPos, notified>>
    /\ call' = Called("environment")
    /\ UNCHANGED <<zoneVars, lockVars, pointerVars, webVars>>

Next ==
    \/ init
    \/ \E d \in 0..MaxStep : checkEnterLeaveEntities(d)
    \/ forceRecheckEntities
    \/ leaveAllEntities
    \/ clear
    \/ shutdown
    \/ addingEntity
    \/ deletingEntity
    \/ MoveAvatar
    \/ TreeAddEntity
    \/ TreeDeleteEntity

Spec == Init /\ [][Next]_vars

\* ------------------------------------------------------------ LayeredZones
\* The operations of the class LayeredZones, called one at a time and in any
\* order on _layeredZones, with oldLayeredZones the object move-constructed
\* from it, while the domain edits the volume and the visibility of the zones.
\* call.ret is what the operation returned (insert: the bool of the pair);
\* call.after of a clear says when it came right after the move construction.

\* a step of the class leaves the tracker and the tree alone
ZoneFrame ==
    /\ fired' = <<>>
    /\ UNCHANGED <<_tree, _shuttingDown, _wantScripts, _entitiesScriptEngine, scene, entities,
                   _entitiesInScene, viewPos, _avatarPosition, sinceZoneCheck,
                   _currentEntitiesInside, rankedZones, queue, notified, lockVars, pointerVars, webVars>>

\* what an operation of the class that returned ret leaves in call
Returned(op, ret) == [Called(op) EXCEPT !.ret = ret]

\* as UpdateZoneResult, without the lookup of the id in the tree
UpdateZoneResult_stale(lz, id) ==
    IF IsZone(id) /\ Contains(id, _avatarPosition)
    THEN LZUpdate(lz, LayeredZone(id), id \in visible)
    ELSE lz

\* updateZone(id), lines 974-980: _layeredZones after the call made on lz
UpdateZoneResult(lz, id) ==
    IF id \in entities /\ IsZone(id) /\ Contains(id, _avatarPosition)
    THEN LZUpdate(lz, LayeredZone(id), id \in visible)
    ELSE lz

\* updateZone(id), lines 974-980
updateZone(id) ==
    /\ _layeredZones' = UpdateZoneResult(_layeredZones, id)
    /\ call' = Called("updateZone")
    /\ ZoneFrame
    /\ UNCHANGED <<zoneVars, visible>>

\* _layeredZones.insert(zone), line 253
insertZone(id) ==
    /\ _layeredZones' = LZInsert(_layeredZones, LayeredZone(id))
    /\ call' = Returned("insert", ~SetHasEquivalent(_layeredZones.set, LayeredZone(id)))
    /\ ZoneFrame
    /\ UNCHANGED <<zoneVars, visible>>

\* _layeredZones.clear(), line 227
clearZones ==
    /\ _layeredZones' = LZClear(_layeredZones)
    /\ call' = [Called("LayeredZones::clear") EXCEPT
                   !.after = IF call.op = "LayeredZones::LayeredZones" THEN call.op ELSE "-"]
    /\ ZoneFrame
    /\ UNCHANGED <<zoneVars, visible>>

\* LayeredZones oldLayeredZones(std::move(_layeredZones)), line 226
moveZones ==
    /\ oldLayeredZones' = LZMoved(_layeredZones)
    /\ _layeredZones' \in LZMovedFrom(_layeredZones)
    /\ call' = Called("LayeredZones::LayeredZones")
    /\ ZoneFrame
    /\ UNCHANGED <<volume, visible>>

\* _layeredZones.contains(oldLayeredZones), line 266
containsOld ==
    /\ \E c \in LZContains(_layeredZones, oldLayeredZones) :
          /\ _layeredZones' = c.lz
          /\ call' = Returned("contains", c.result)
    /\ ZoneFrame
    /\ UNCHANGED <<zoneVars, visible>>

\* the zones whose volume estimate the domain edits: Z1 is as large as Z2 or larger
Resizable == {Z1}

\* the domain edits a zone: its volume estimate changes
SetVolume ==
    /\ \E z \in Resizable :
          \E v \in VolumeEstimates \ {volume[z]} : volume' = [volume EXCEPT ![z] = v]
    /\ call' = Called("environment")
    /\ ZoneFrame
    /\ UNCHANGED <<_layeredZones, oldLayeredZones, visible>>

\* the domain edits a zone: its visibility changes
SetVisible ==
    /\ \E z \in Zones :
          visible' = (IF z \in visible THEN visible \ {z} ELSE visible \cup {z})
    /\ call' = Called("environment")
    /\ ZoneFrame
    /\ UNCHANGED <<_layeredZones, zoneVars>>

\* the renderer with its tree, the two zones in it and the avatar inside Z1,
\* and either inside or outside Z2
ZoneInit ==
    /\ _tree = TRUE
    /\ _shuttingDown = FALSE
    /\ _wantScripts = FALSE
    /\ _entitiesScriptEngine = FALSE
    /\ scene = TRUE
    /\ entities = Zones
    /\ visible = Ids
    /\ _entitiesInScene = Zones
    /\ viewPos \in {P0, P2}
    /\ _avatarPosition = viewPos
    /\ sinceZoneCheck = 0
    /\ _currentEntitiesInside = <<>>
    /\ _layeredZones = EmptyLayeredZones
    /\ rankedZones = <<>>
    /\ queue = <<>>
    /\ fired = <<>>
    /\ notified = {}
    /\ call = Called("constructor")
    /\ volume = [z \in Zones |-> FirstVolume(z)]
    /\ oldLayeredZones = EmptyLayeredZones
    /\ NoThreadAtWork
    /\ NoPointerNoWeb

ZoneNext ==
    \/ \E id \in Zones : updateZone(id)
    \/ \E id \in Zones : insertZone(id)
    \/ clearZones
    \/ moveZones
    \/ containsOld
    \/ SetVolume
    \/ SetVisible

ZoneSpec == ZoneInit /\ [][ZoneNext]_vars

\* The renderer as it uses the class: updateZone called for zones the domain
\* keeps editing, and the rechecks that rebuild _layeredZones (lines 226-272).
UpdateNext ==
    \/ \E id \in Zones : updateZone(id)
    \/ \E d \in 0..MaxStep : checkEnterLeaveEntities(d)
    \/ SetVolume
    \/ SetVisible

UpdateSpec == ZoneInit /\ [][UpdateNext]_vars

\* --------------------------------------------------------------- the resolver
\* the main 3D scene goes away, as it does while the application shuts down
\* (line 369): getMain3DScene() returns null from then on
SceneGone ==
    /\ scene
    /\ scene' = FALSE
    /\ fired' = <<>>
    /\ call' = Called("environment")
    /\ UNCHANGED <<rendererVars, entities, visible, viewPos, queue, notified, zoneVars, lockVars, pointerVars, webVars>>

\* the renderer after init(), the two boxes in the tree and in the scene and
\* the avatar inside both
ResolverInit ==
    /\ _tree = TRUE
    /\ _shuttingDown = FALSE
    /\ _wantScripts = FALSE
    /\ _entitiesScriptEngine = FALSE
    /\ scene = TRUE
    /\ entities = {S3, B4}
    /\ visible = Ids
    /\ _entitiesInScene = {S3, B4}
    /\ viewPos = P0
    /\ _avatarPosition = ForcedPosition(P0)
    /\ sinceZoneCheck = Saturated(ZONE_CHECK_INTERVAL + 1)
    /\ _currentEntitiesInside = <<>>
    /\ _layeredZones = EmptyLayeredZones
    /\ rankedZones = <<>>
    /\ queue = <<>>
    /\ fired = <<>>
    /\ notified = {}
    /\ call = Called("init")
    /\ volume = [z \in Zones |-> FirstVolume(z)]
    /\ oldLayeredZones = EmptyLayeredZones
    /\ NoThreadAtWork
    /\ NoPointerNoWeb

\* The resolver at work: the rechecks, while the avatar moves, the domain
\* sends its zones, hides and shows them, and the scene may go.
ResolverNext ==
    \/ \E d \in 0..MaxStep : checkEnterLeaveEntities(d)
    \/ addingEntity
    \/ MoveAvatar
    \/ TreeAddEntity
    \/ SetVisible
    \/ SceneGone

ResolverSpec == ResolverInit /\ [][ResolverNext]_vars

\* ----------------------------------------------------------- the tree's lock
\* checkEnterLeaveEntities and updateZone taken apart into the steps the
\* owner thread makes, with the network thread writing the tree under the
\* write lock in between.  call.op names the step; the step that ends a
\* recheck leaves in call what checkEnterLeaveEntities as a whole leaves.

\* what a step in the middle of an operation leaves alone
StepFrame ==
    /\ fired' = <<>>
    /\ UNCHANGED <<_tree, _shuttingDown, _wantScripts, _entitiesScriptEngine, scene, entities,
                   visible, _entitiesInScene, viewPos, _currentEntitiesInside, queue, notified,
                   volume, pointerVars, webVars>>

\* checkEnterLeaveEntities, lines 282-298: the policy is passed, the position
\* and the time are stored, findBestZoneAndMaybeContainingEntities is entered
recheckBegin(d) ==
    LET elapsed == Saturated(sinceZoneCheck + d)
    IN  /\ pc = "idle"
        /\ _tree /\ ~_shuttingDown /\ ShouldRecheck(viewPos, elapsed)
        /\ _avatarPosition' = viewPos
        /\ sinceZoneCheck' = SinceAfterRecheck(elapsed)
        /\ pc' = "withReadLock"
        /\ local' = NoLocals
        /\ call' = Called("begin")
        /\ StepFrame
        /\ UNCHANGED <<_layeredZones, oldLayeredZones, rankedZones, treeLock>>

\* as withReadLock, the lambda entered without the lock
withReadLock_unlocked ==
    /\ pc = "withReadLock"
    /\ pc' = "findEntities"
    /\ call' = Called("withReadLock")
    /\ StepFrame
    /\ UNCHANGED <<_avatarPosition, sinceZoneCheck, _layeredZones, oldLayeredZones,
                   rankedZones, local, treeLock>>

\* _tree->withReadLock (line 221): the lock is taken for reading once no
\* writer holds it, and the lambda is entered
withReadLock ==
    /\ pc = "withReadLock"
    /\ treeLock # "write"
    /\ treeLock' = "read"
    /\ pc' = "findEntities"
    /\ call' = Called("withReadLock")
    /\ StepFrame
    /\ UNCHANGED <<_avatarPosition, sinceZoneCheck, _layeredZones, oldLayeredZones,
                   rankedZones, local>>

\* lines 224-227: the radius query, then the old set moved out of
\* _layeredZones and _layeredZones cleared
findEntities ==
    /\ pc = "findEntities"
    /\ local' = [local EXCEPT !.found = FoundEntities(_avatarPosition)]
    /\ oldLayeredZones' = LZMoved(_layeredZones)
    /\ _layeredZones' = LZClear(_layeredZones)
    /\ pc' = "loop"
    /\ call' = Called("findEntities")
    /\ StepFrame
    /\ UNCHANGED <<_avatarPosition, sinceZoneCheck, rankedZones, treeLock>>

\* one turn of the loop of lines 230-258, for the entity at the head of what
\* is left of foundEntities; the entity is held by pointer, the tree is not
\* looked at again
visitEntity ==
    /\ pc = "loop"
    /\ local.found # <<>>
    /\ LET e == Head(local.found)
           tested == IsZone(e) \/ HasScript(e)
           inside == tested /\ Contains(e, _avatarPosition)
           layered == inside /\ IsZone(e) /\ e \in visible /\ IsValidRenderID(e)
       IN  /\ local' = [local EXCEPT !.found = Tail(local.found),
                                     !.ids = IF inside THEN Append(local.ids, e) ELSE local.ids]
           /\ _layeredZones' = IF layered THEN LZInsert(_layeredZones, LayeredZone(e))
                               ELSE _layeredZones
           /\ call' = Called(IF tested THEN "entity->contains" ELSE "skip")
    /\ pc' = "loop"
    /\ StepFrame
    /\ UNCHANGED <<_avatarPosition, sinceZoneCheck, oldLayeredZones, rankedZones, treeLock>>

\* the paths out of the lambda, lines 261-275: [exit, didUpdate, lz]
LambdaExits ==
    IF _layeredZones.set = <<>> /\ oldLayeredZones.set = <<>>
    THEN {[exit |-> "bothEmpty", didUpdate |-> FALSE, lz |-> _layeredZones]}
    ELSE IF _layeredZones.set # <<>> /\ oldLayeredZones.set # <<>>
    THEN {IF c.result
          THEN [exit |-> "equivalent", didUpdate |-> FALSE, lz |-> c.lz]
          ELSE [exit |-> "applied", didUpdate |-> TRUE, lz |-> c.lz] :
             c \in LZContains(_layeredZones, oldLayeredZones)}
    ELSE {[exit |-> "applied", didUpdate |-> TRUE, lz |-> _layeredZones]}

\* the rest of the lambda after the loop (lines 261-275), and the return
\* from withReadLock, which gives the lock back whichever way the lambda
\* was left
leaveReadLock ==
    /\ pc = "loop"
    /\ local.found = <<>>
    /\ \E x \in LambdaExits :
          /\ _layeredZones' = x.lz
          /\ rankedZones' = (IF x.didUpdate THEN ApplyLayeredZones(x.lz, rankedZones)
                             ELSE rankedZones)
          /\ local' = [local EXCEPT !.didUpdate = x.didUpdate, !.exit = x.exit]
    /\ treeLock' = "free"
    /\ pc' = "notify"
    /\ call' = Called("unlock")
    /\ StepFrame
    /\ UNCHANGED <<_avatarPosition, sinceZoneCheck, oldLayeredZones>>

\* the rest of checkEnterLeaveEntities, lines 306-327
notifyEntities ==
    /\ pc = "notify"
    /\ fired' = RecheckEvents(_currentEntitiesInside, local.ids)
    /\ notified' = NotifiedAfter(notified, fired')
    /\ _currentEntitiesInside' = StoredAfterRecheck(_currentEntitiesInside, local.ids)
    /\ call' = [op |-> "checkEnterLeaveEntities", recheck |-> TRUE,
                ret |-> local.didUpdate, after |-> local.exit]
    /\ pc' = "idle"
    /\ local' = NoLocals
    /\ UNCHANGED <<_tree, _shuttingDown, _wantScripts, _entitiesScriptEngine, scene, entities,
                   visible, _entitiesInScene, viewPos, queue, volume, _avatarPosition,
                   sinceZoneCheck, _layeredZones, oldLayeredZones, rankedZones, treeLock,
                   pointerVars, webVars>>

\* updateZone, line 976: the zone is looked up in the tree
findZone(id) ==
    /\ pc = "idle"
    /\ _tree
    /\ local' = [NoLocals EXCEPT !.zone = IF id \in entities /\ IsZone(id) THEN id ELSE NoZone]
    /\ pc' = "updateZone"
    /\ call' = Called("findEntityByEntityItemID")
    /\ StepFrame
    /\ UNCHANGED <<_avatarPosition, sinceZoneCheck, _layeredZones, oldLayeredZones,
                   rankedZones, treeLock>>

\* updateZone, lines 977-979: the containment test of the zone found, and
\* the update of _layeredZones
testZone ==
    /\ pc = "updateZone"
    /\ _layeredZones' =
          (IF local.zone # NoZone /\ Contains(local.zone, _avatarPosition)
           THEN LZUpdate(_layeredZones, LayeredZone(local.zone), local.zone \in visible)
           ELSE _layeredZones)
    /\ call' = Called(IF local.zone # NoZone THEN "entity->contains" ELSE "skip")
    /\ pc' = "idle"
    /\ local' = NoLocals
    /\ StepFrame
    /\ UNCHANGED <<_avatarPosition, sinceZoneCheck, oldLayeredZones, rankedZones, treeLock>>

\* the network thread takes the lock of the tree for writing, once nobody
\* holds it
beginWrite ==
    /\ _tree /\ ~_shuttingDown
    /\ Len(queue) < MaxQueue
    /\ treeLock = "free"
    /\ treeLock' = "write"
    /\ call' = Called("environment")
    /\ StepFrame
    /\ UNCHANGED <<_avatarPosition, sinceZoneCheck, _layeredZones, oldLayeredZones,
                   rankedZones, pc, local>>

\* the network thread has added or deleted an entity, the tree has emitted
\* the signal, and the lock is given back
endWrite ==
    /\ treeLock = "write"
    /\ \/ \E e \in Addable :
             /\ entities' = entities \cup {e}
             /\ queue' = Append(queue, [sig |-> "addingEntity", id |-> e])
             /\ visible' = visible
       \/ \E e \in Deletable :
             /\ entities' = entities \ {e}
             /\ queue' = Append(queue, [sig |-> "deletingEntity", id |-> e])
             /\ visible' = visible \cup {e}
    /\ treeLock' = "free"
    /\ fired' = <<>>
    /\ call' = Called("environment")
    /\ UNCHANGED <<rendererVars, scene, viewPos, notified, volume, oldLayeredZones, pc, local,
                   pointerVars, webVars>>

\* the renderer after init(), Z1 and the scripted box in the tree and in the
\* scene, the avatar inside both
LockInit ==
    /\ _tree = TRUE
    /\ _shuttingDown = FALSE
    /\ _wantScripts = FALSE
    /\ _entitiesScriptEngine = FALSE
    /\ scene = TRUE
    /\ entities = {Z1, S3}
    /\ visible = Ids
    /\ _entitiesInScene = {Z1, S3}
    /\ viewPos = P0
    /\ _avatarPosition = ForcedPosition(P0)
    /\ sinceZoneCheck = Saturated(ZONE_CHECK_INTERVAL + 1)
    /\ _currentEntitiesInside = <<>>
    /\ _layeredZones = EmptyLayeredZones
    /\ rankedZones = <<>>
    /\ queue = <<>>
    /\ fired = <<>>
    /\ notified = {}
    /\ call = Called("init")
    /\ volume = [z \in Zones |-> FirstVolume(z)]
    /\ oldLayeredZones = EmptyLayeredZones
    /\ NoThreadAtWork
    /\ NoPointerNoWeb

\* The owner thread runs rechecks and updateZone step by step and the slots
\* of the queued signals between two operations; the network thread writes.
LockNext ==
    \/ \E d \in 0..MaxStep : recheckBegin(d)
    \/ withReadLock
    \/ findEntities
    \/ visitEntity
    \/ leaveReadLock
    \/ notifyEntities
    \/ \E id \in Zones : findZone(id)
    \/ testZone
    \/ pc = "idle" /\ addingEntity
    \/ pc = "idle" /\ deletingEntity
    \/ beginWrite
    \/ endWrite

LockSpec == LockInit /\ [][LockNext]_vars

\* ------------------------------------------------------- missing resources
\* The renderer from its construction to its shutdown, with updateZone called
\* for any id once the tree is there: ids of zones, of other entities, and
\* of entities the tree does not hold, or no longer holds.
LifeNext ==
    \/ init
    \/ \E d \in 0..MaxStep : checkEnterLeaveEntities(d)
    \/ \E id \in Ids : _tree /\ updateZone(id)
    \/ shutdown
    \/ addingEntity
    \/ deletingEntity
    \/ TreeAddEntity
    \/ TreeDeleteEntity

LifeSpec == Init /\ [][LifeNext]_vars

\* ------------------------------------------------------- pointer events
\* The mouse handlers, for the entity hit the ray pick returns
\* (UNKNOWN_ENTITY_ID when the ray intersects nothing), update() with its
\* replay of holdingClickOnEntity, and the slot entityScriptChanging.

\* what a mouse handler, update() or entityScriptChanging leaves alone
PointerFrame ==
    UNCHANGED <<_tree, _shuttingDown, _wantScripts, _entitiesScriptEngine, scene, entities,
                visible, _entitiesInScene, viewPos, _avatarPosition, sinceZoneCheck,
                _currentEntitiesInside, _layeredZones, rankedZones, queue, notified,
                zoneVars, lockVars, webVars>>

\* the entities a ray pick can return
Hits == entities \cup {UNKNOWN_ENTITY_ID}

\* the early return of the mouse handlers (lines 530, 579, 619, 671)
IgnoresPointer == ~_tree \/ _shuttingDown

\* a handler that returned early
Ignored(op) ==
    /\ fired' = <<>>
    /\ call' = Called(op)
    /\ UNCHANGED pointerVars
    /\ PointerFrame

\* mousePressEvent, lines 527-574
mousePressEvent(hit) ==
    IF IgnoresPointer THEN Ignored("mousePressEvent")
    ELSE /\ IF hit # UNKNOWN_ENTITY_ID
            THEN /\ fired' = Emit("mousePressOnEntity", hit)
                             \o Guarded(EngineCall("mousePressOnEntity", hit))
                             \o Emit("clickDownOnEntity", hit)
                             \o Guarded(EngineCall("clickDownOnEntity", hit))
                 /\ _currentClickingOnEntityID' = hit
                 /\ _lastPointerEventValid' = TRUE
            ELSE /\ fired' = Emit("mousePressOffEntity", UNKNOWN_ENTITY_ID)
                 /\ UNCHANGED <<_currentClickingOnEntityID, _lastPointerEventValid>>
         /\ call' = Called("mousePressEvent")
         /\ UNCHANGED _currentHoverOverEntityID
         /\ PointerFrame

\* mouseDoublePressEvent, lines 576-614
mouseDoublePressEvent(hit) ==
    IF IgnoresPointer THEN Ignored("mouseDoublePressEvent")
    ELSE /\ IF hit # UNKNOWN_ENTITY_ID
            THEN /\ fired' = Emit("mouseDoublePressOnEntity", hit)
                             \o Guarded(EngineCall("mouseDoublePressOnEntity", hit))
                             \o Emit("clickDownOnEntity", hit)
                             \o Guarded(EngineCall("doubleclickOnEntity", hit))
                 /\ _currentClickingOnEntityID' = hit
                 /\ _lastPointerEventValid' = TRUE
            ELSE /\ fired' = Emit("mouseDoublePressOffEntity", UNKNOWN_ENTITY_ID)
                 /\ UNCHANGED <<_currentClickingOnEntityID, _lastPointerEventValid>>
         /\ call' = Called("mouseDoublePressEvent")
         /\ UNCHANGED _currentHoverOverEntityID
         /\ PointerFrame

\* mouseReleaseEvent, lines 616-666; the script call of clickReleaseOnEntity
\* is made for the entity hit (line 660), not for the entity clicked
mouseReleaseEvent(hit) ==
    IF IgnoresPointer THEN Ignored("mouseReleaseEvent")
    ELSE /\ fired' = (IF hit # UNKNOWN_ENTITY_ID
                      THEN Emit("mouseReleaseOnEntity", hit)
                           \o Guarded(EngineCall("mouseReleaseOnEntity", hit))
                      ELSE <<>>)
                     \o (IF _currentClickingOnEntityID # UNKNOWN_ENTITY_ID
                         THEN Emit("clickReleaseOnEntity", _currentClickingOnEntityID)
                              \o Guarded(EngineCall("clickReleaseOnEntity", hit))
                         ELSE <<>>)
         /\ _lastPointerEventValid' = (hit # UNKNOWN_ENTITY_ID \/ _lastPointerEventValid)
         /\ _currentClickingOnEntityID' = UNKNOWN_ENTITY_ID
         /\ call' = Called("mouseReleaseEvent")
         /\ UNCHANGED _currentHoverOverEntityID
         /\ PointerFrame

\* mouseMoveEvent, lines 668-777
mouseMoveEvent(hit) ==
    IF IgnoresPointer THEN Ignored("mouseMoveEvent")
    ELSE LET hover == _currentHoverOverEntityID
             click == _currentClickingOnEntityID
             over == IF hit # UNKNOWN_ENTITY_ID
                     THEN Emit("mouseMoveOnEntity", hit)
                          \o Guarded(EngineCall("mouseMoveEvent", hit)
                                     \o EngineCall("mouseMoveOnEntity", hit))
                          \o (IF hover # UNKNOWN_ENTITY_ID /\ hit # hover
                              THEN Notify("hoverLeaveEntity", hover) ELSE <<>>)
                          \o (IF hit # hover THEN Notify("hoverEnterEntity", hit) ELSE <<>>)
                          \o Notify("hoverOverEntity", hit)
                     ELSE IF hover # UNKNOWN_ENTITY_ID
                     THEN Notify("hoverLeaveEntity", hover)
                     ELSE <<>>
             holding == IF click # UNKNOWN_ENTITY_ID
                        THEN Notify("holdingClickOnEntity", click)
                        ELSE <<>>
         IN  /\ fired' = over \o holding
             /\ _currentHoverOverEntityID' = hit
             /\ _lastPointerEventValid' = (hit # UNKNOWN_ENTITY_ID \/ _lastPointerEventValid)
             /\ call' = Called("mouseMoveEvent")
             /\ UNCHANGED _currentClickingOnEntityID
             /\ PointerFrame

\* update(), lines 204-207: the replay of holdingClickOnEntity
HoldingClickReplay ==
    IF _lastPointerEventValid /\ _currentClickingOnEntityID # UNKNOWN_ENTITY_ID
    THEN Emit("holdingClickOnEntity", _currentClickingOnEntityID)
         \o EngineCall("holdingClickOnEntity", _currentClickingOnEntityID)
    ELSE <<>>

\* update(), lines 193-212, called when d clock units have passed since the
\* previous reading of the clock
update(d) ==
    IF _tree /\ ~_shuttingDown
    THEN CheckEnterLeaveThen(d, HoldingClickReplay)
    ELSE /\ fired' = <<>>
         /\ call' = Called("update")
         /\ UNCHANGED <<pointerVars, sinceZoneCheck>>
         /\ PointerFrame

\* entityScriptChanging (lines 840-842), the slot of the signal the tree
\* emits for the entity id, which may have left the tree since
entityScriptChanging(id) ==
    /\ _tree
    /\ \E shouldPreload \in BOOLEAN : fired' = PreloadCalls(id, shouldPreload, TRUE)
    /\ call' = Called("entityScriptChanging")
    /\ UNCHANGED pointerVars
    /\ PointerFrame

\* the renderer after init(), with or without scripts, the scripted box and
\* the other box in the tree and in the scene
PointerInit ==
    /\ _tree = TRUE
    /\ _shuttingDown = FALSE
    /\ _wantScripts \in BOOLEAN
    /\ _entitiesScriptEngine = _wantScripts
    /\ scene = TRUE
    /\ entities = {S3, B4}
    /\ visible = Ids
    /\ _entitiesInScene = {S3, B4}
    /\ viewPos = P0
    /\ _avatarPosition = ForcedPosition(P0)
    /\ sinceZoneCheck = Saturated(ZONE_CHECK_INTERVAL + 1)
    /\ _currentEntitiesInside = <<>>
    /\ _layeredZones = EmptyLayeredZones
    /\ rankedZones = <<>>
    /\ queue = <<>>
    /\ fired = <<>>
    /\ notified = {}
    /\ call = Called("init")
    /\ volume = [z \in Zones |-> FirstVolume(z)]
    /\ oldLayeredZones = EmptyLayeredZones
    /\ NoThreadAtWork
    /\ NoPointerNoWeb

\* The frames and the pointer: update() every frame, the mouse handlers for
\* any pick, zones arriving, scripts changing, and the shutdown.
PointerNext ==
    \/ \E d \in 0..MaxStep : update(d)
    \/ \E hit \in Hits : mousePressEvent(hit)
    \/ \E hit \in Hits : mouseDoublePressEvent(hit)
    \/ \E hit \in Hits : mouseReleaseEvent(hit)
    \/ \E hit \in Hits : mouseMoveEvent(hit)
    \/ \E id \in Ids : entityScriptChanging(id)
    \/ TreeAddEntity
    \/ addingEntity
    \/ shutdown

PointerSpec == PointerInit /\ [][PointerNext]_vars

\* ------------------------------------------------------------ web entities
\* RenderableWebEntityItem.cpp: the web entities share the file-scope counter
\* _currentWebCount; each builds its surface when it is rendered without one
\* and gives it up in update(now) and in its destructor.  Times are uint64_t
\* microseconds, the counter is a uint32_t: both are kept here in narrower
\* unsigned words, sums and differences taken modulo the size of the word.
\* The unit of time is half of MAX_NO_RENDER_INTERVAL, and the limit on the
\* surfaces is scaled to the three web entities of the model.

\* the readings of the clock go from 0 to MaxClock
MaxClock == 5
\* the number of values of the word that holds a time
UsecWord == 8
\* the number of values of the word that holds the counter
CountWord == 8

\* MAX_CONCURRENT_WEB_VIEWS (line 34)
MAX_CONCURRENT_WEB_VIEWS == 2
\* MAX_NO_RENDER_INTERVAL (line 36), two clock units
MAX_NO_RENDER_INTERVAL == 2

\* as TooManyWebViews, the limit never reached
TooManyWebViews_never(count) == FALSE

\* the test of line 73
TooManyWebViews(count) == count >= MAX_CONCURRENT_WEB_VIEWS

\* buildWebSurface() of w (lines 72-162) with or without a current OpenGL
\* context: what it returns, the counter and the surfaces after it
buildWebSurface(w, hasContext) ==
    IF TooManyWebViews(_currentWebCount) \/ ~hasContext
    THEN [ret |-> FALSE, count |-> _currentWebCount, surfaces |-> _webSurface]
    ELSE [ret |-> TRUE, count |-> (_currentWebCount + 1) % CountWord,
          surfaces |-> _webSurface \cup {w}]

\* destroyWebSurface() of w (lines 365-401): the counter and the surfaces after it
destroyWebSurface(w) ==
    IF w \in _webSurface
    THEN [count |-> (_currentWebCount - 1) % CountWord, surfaces |-> _webSurface \ {w}]
    ELSE [count |-> _currentWebCount, surfaces |-> _webSurface]

\* now - _lastRenderTime (line 410), a difference of two uint64_t
NoRenderInterval(now, last) == (now - last) % UsecWord

\* what the operations of a web entity leave alone
WebFrame ==
    /\ fired' = <<>>
    /\ UNCHANGED <<_tree, _shuttingDown, _wantScripts, _entitiesScriptEngine, scene, entities,
                   visible, _entitiesInScene, viewPos, _avatarPosition, sinceZoneCheck,
                   _currentEntitiesInside, _layeredZones, rankedZones, queue, notified,
                   zoneVars, lockVars, pointerVars>>

\* RenderableWebEntityItem::factory (lines 43-47) and the constructor
\* (lines 49-59): the entity has no surface and has not been rendered
WebFactory(w) ==
    /\ w \notin webItems
    /\ webItems' = webItems \cup {w}
    /\ _lastRenderTime' = [_lastRenderTime EXCEPT ![w] = 0]
    /\ call' = Called("RenderableWebEntityItem")
    /\ UNCHANGED <<_webSurface, _currentWebCount, clock>>
    /\ WebFrame

\* the destructor, lines 61-70
WebDestructor(w) ==
    /\ w \in webItems
    /\ _currentWebCount' = destroyWebSurface(w).count
    /\ _webSurface' = destroyWebSurface(w).surfaces
    /\ webItems' = webItems \ {w}
    /\ _lastRenderTime' = [_lastRenderTime EXCEPT ![w] = 0]
    /\ call' = Called("~RenderableWebEntityItem")
    /\ UNCHANGED clock
    /\ WebFrame

\* render(), lines 177-196: ret says whether it went past the building of
\* the surface
WebRender(w, hasContext) ==
    /\ w \in webItems
    /\ LET built == IF w \in _webSurface
                    THEN [ret |-> TRUE, count |-> _currentWebCount, surfaces |-> _webSurface]
                    ELSE buildWebSurface(w, hasContext)
       IN  /\ _currentWebCount' = built.count
           /\ _webSurface' = built.surfaces
           /\ _lastRenderTime' = (IF built.ret
                                  THEN [_lastRenderTime EXCEPT ![w] = clock]
                                  ELSE _lastRenderTime)
           /\ call' = [Called("render") EXCEPT !.ret = built.ret]
    /\ UNCHANGED <<webItems, clock>>
    /\ WebFrame

\* update(now), lines 403-414, for a reading now of the clock that the
\* caller took before the call
WebUpdate(w, now) ==
    /\ w \in webItems
    /\ LET interval == NoRenderInterval(now, _lastRenderTime[w])
           after == IF interval > MAX_NO_RENDER_INTERVAL
                    THEN destroyWebSurface(w)
                    ELSE [count |-> _currentWebCount, surfaces |-> _webSurface]
       IN  /\ _currentWebCount' = after.count
           /\ _webSurface' = after.surfaces
    /\ call' = Called("RenderableWebEntityItem::update")
    /\ UNCHANGED <<webItems, _lastRenderTime, clock>>
    /\ WebFrame

\* time passes
Tick ==
    /\ clock < MaxClock
    /\ clock' = clock + 1
    /\ call' = Called("environment")
    /\ UNCHANGED <<webItems, _webSurface, _lastRenderTime, _currentWebCount>>
    /\ WebFrame

\* The web entities come and go, are rendered with or without a current
\* OpenGL context, and are updated with readings of the clock taken at any
\* time up to the present.
WebNext ==
    \/ \E w \in WebIds : WebFactory(w)
    \/ \E w \in WebIds : WebDestructor(w)
    \/ \E w \in WebIds, hasContext \in BOOLEAN : WebRender(w, hasContext)
    \/ \E w \in WebIds, now \in 0..clock : WebUpdate(w, now)
    \/ Tick

WebSpec == Init /\ [][WebNext]_vars

\* update() runs every frame (lines 193-212) and the clock advances between
\* frames: checkEnterLeaveEntities keeps being called at later clock readings
FrameLater == \E d \in 1..MaxStep : checkEnterLeaveEntities(d)

\* The world without a main 3D scene: deletingEntity returns before
\* forceRecheckEntities there (lines 789-792), so that the notifications for a
\* deleted entity are left to the rechecks the elapsed time brings.
LiveInit == Init /\ ~scene

LiveSpec == LiveInit /\ [][Next]_vars /\ WF_vars(FrameLater)

\* ------------------------------------------------------------------ claims
\* the last step was a call of checkEnterLeaveEntities that ran the resolver
Rechecked(c) == c.op = "checkEnterLeaveEntities" /\ c.recheck

\* the last step was a call of checkEnterLeaveEntities that ran nothing
Skipped(c) == c.op = "checkEnterLeaveEntities" /\ ~c.recheck

\* how many times the notification name(id) was emitted in evs
Emitted(evs, name, id) ==
    Cardinality({i \in 1..Len(evs) : evs[i].sig = "emit" /\ evs[i].name = name /\ evs[i].id = id})

\* C1: a performed recheck, from the stored containment set P to the freshly
\* resolved set N, emits exactly one leaveEntity for each id of P \ N, exactly
\* one enterEntity for each id of N \ P, and nothing for the other ids.
C1_EnterLeaveDiff ==
    [][Rechecked(call') =>
         LET P == Range(_currentEntitiesInside)
             N == Range(ContainingIDs(viewPos))
         IN  \A id \in Ids :
                /\ Emitted(fired', "leaveEntity", id) = (IF id \in P \ N THEN 1 ELSE 0)
                /\ Emitted(fired', "enterEntity", id) = (IF id \in N \ P THEN 1 ELSE 0)]_vars

\* a recheck that fired a leave and an enter and kept a third id inside silently
C1_Witness ==
    /\ Rechecked(call)
    /\ \E a, b, c \in Ids :
          /\ Emitted(fired, "leaveEntity", a) = 1
          /\ Emitted(fired, "enterEntity", b) = 1
          /\ c \in Range(_currentEntitiesInside)
          /\ Emitted(fired, "enterEntity", c) = 0

\* C2: within one recheck every leaveEntity notification and script call comes
\* before every enterEntity notification and script call.
C2_LeavesBeforeEnters ==
    Rechecked(call) =>
        \A i, j \in 1..Len(fired) :
            (fired[i].name = "enterEntity" /\ fired[j].name = "leaveEntity") => j < i

\* a recheck that notified and called the script for a leave and for an enter
C2_Witness ==
    /\ Rechecked(call)
    /\ \E i, j \in 1..Len(fired) :
          /\ fired[i].name = "leaveEntity" /\ fired[i].sig = "call"
          /\ fired[j].name = "enterEntity" /\ fired[j].sig = "call"

\* the notifications of one id, in the order they were emitted
EmitsOf(evs, id) == SelectSeq(evs, LAMBDA e : e.sig = "emit" /\ e.id = id)

\* C3: for every id the notifications alternate, starting with enterEntity, and
\* the id is in the stored containment set exactly when its latest notification
\* is enterEntity.
C3_Alternation ==
    /\ [](notified = Range(_currentEntitiesInside))
    /\ [][\A id \in Ids :
            LET evs == EmitsOf(fired', id)
            IN  \A i \in 1..Len(evs) :
                   evs[i].name = (IF (i % 2 = 1) = (id \notin notified)
                                  THEN "enterEntity" ELSE "leaveEntity")]_vars

\* shutdown has run while an entity was inside
C3_Witness == _shuttingDown /\ notified # {} /\ call.op = "shutdown"

\* C4: after a performed recheck the stored containment set is the one the
\* resolver returned; a call that does not recheck leaves it as it was.
C4_StoredSet ==
    [][(call'.op = "checkEnterLeaveEntities") =>
         _currentEntitiesInside' = (IF call'.recheck THEN ContainingIDs(viewPos)
                                    ELSE _currentEntitiesInside)]_vars

\* a recheck replaced a stored set by a different one, both with members
C4_Witness ==
    /\ Rechecked(call)
    /\ _currentEntitiesInside # <<>>
    /\ \E i \in 1..Len(fired) : fired[i].name = "leaveEntity"

\* a call of checkEnterLeaveEntities that runs nothing: no notification, no
\* script call, false returned, the members of the renderer as they were
NothingDone ==
    /\ ~call'.recheck
    /\ ~call'.ret
    /\ fired' = <<>>
    /\ UNCHANGED <<_tree, _shuttingDown, _entitiesScriptEngine, _entitiesInScene, _avatarPosition,
                   _currentEntitiesInside, _layeredZones, rankedZones, notified>>

\* C5: checkEnterLeaveEntities runs the resolver, and stores the position and
\* the time of the check, exactly when the tree is there, shutdown has not
\* begun and the viewpoint is farther than ZONE_CHECK_DISTANCE from the stored
\* position or more than ZONE_CHECK_INTERVAL has passed since the stored time;
\* otherwise it queries nothing and fires nothing.
C5_RecheckPolicy ==
    [][\A d \in 0..MaxStep :
          (call'.op = "checkEnterLeaveEntities" /\ checkEnterLeaveEntities(d)) =>
             LET due == /\ _tree
                        /\ ~_shuttingDown
                        /\ \/ DistanceGreater(viewPos, _avatarPosition, ZONE_CHECK_DISTANCE)
                           \/ sinceZoneCheck + d > ZONE_CHECK_INTERVAL
             IN  /\ call'.recheck <=> due
                 /\ call'.recheck => (_avatarPosition' = viewPos /\ sinceZoneCheck' = 0)
                 /\ ~call'.recheck => NothingDone]_vars

\* a call skipped with the viewpoint moved by no more than the threshold and
\* exactly the time threshold elapsed
C5_Witness ==
    /\ Skipped(call)
    /\ _tree /\ ~_shuttingDown
    /\ viewPos # _avatarPosition
    /\ sinceZoneCheck = ZONE_CHECK_INTERVAL

\* C6, as stated: of two calls of checkEnterLeaveEntities in immediate
\* succession, the viewpoint unmoved and less than ZONE_CHECK_INTERVAL elapsed
\* between them, the second changes nothing, fires nothing and returns false.
C6_SecondCallIdle ==
    [][\A d \in 0..(ZONE_CHECK_INTERVAL - 1) :
          (/\ call.op = "checkEnterLeaveEntities"
           /\ call'.op = "checkEnterLeaveEntities"
           /\ checkEnterLeaveEntities(d)) => NothingDone]_vars

\* C6, amended: of two such calls at most one runs the resolver, and the
\* second changes nothing, fires nothing and returns false when the first one
\* ran it.
C6_AtMostOneRecheck ==
    [][\A d \in 0..(ZONE_CHECK_INTERVAL - 1) :
          (/\ call.op = "checkEnterLeaveEntities"
           /\ call'.op = "checkEnterLeaveEntities"
           /\ checkEnterLeaveEntities(d)) =>
              /\ ~(call.recheck /\ call'.recheck)
              /\ call.recheck => NothingDone]_vars

\* a call that skipped right after a call that rechecked
C6_Witness ==
    /\ Skipped(call)
    /\ call.after = "recheck"
    /\ _tree /\ ~_shuttingDown
    /\ sinceZoneCheck < ZONE_CHECK_INTERVAL

\* C7: checkEnterLeaveEntities called right after forceRecheckEntities, the tree
\* there and shutdown not begun, runs the resolver.
C7_ForcedRecheck ==
    [][(/\ call.op = "forceRecheckEntities"
        /\ call'.op = "checkEnterLeaveEntities"
        /\ _tree /\ ~_shuttingDown) => call'.recheck]_vars

\* a recheck right after forceRecheckEntities that changed no containment
C7_Witness ==
    /\ Rechecked(call)
    /\ call.after = "forceRecheckEntities"
    /\ fired = <<>>
    /\ _currentEntitiesInside # <<>>

\* the step is a call of leaveAllEntities, by itself or from clear or shutdown
LeaveAllCalled == call'.op \in {"leaveAllEntities", "clear", "shutdown"}

\* leaveEntity once for every stored id, the set emptied, the position invalidated
LeftAll ==
    /\ \A id \in Ids :
          Emitted(fired', "leaveEntity", id) = (IF id \in Range(_currentEntitiesInside) THEN 1 ELSE 0)
    /\ \A i \in 1..Len(fired') : fired'[i].name = "leaveEntity"
    /\ _currentEntitiesInside' = <<>>
    /\ DistanceGreater(viewPos, _avatarPosition', ZONE_CHECK_DISTANCE)

\* C8, as stated, for the calls made while the renderer has a tree: every call
\* of leaveAllEntities, the one made by clear() from shutdown() included, emits
\* leaveEntity once for every stored id, empties the set and invalidates the
\* stored position.
C8_Unconditional == [][(LeaveAllCalled /\ _tree) => LeftAll]_vars

\* C8, amended: leaveAllEntities does so when the tree is there and shutdown has
\* not begun; otherwise, as in the call made by clear() from shutdown(), it
\* fires nothing and leaves the set and the stored position as they were.
C8_LeaveAllGuarded ==
    [][LeaveAllCalled =>
         IF _tree /\ ~_shuttingDown'
         THEN LeftAll
         ELSE /\ fired' = <<>>
              /\ UNCHANGED <<_currentEntitiesInside, _avatarPosition, notified>>]_vars

\* leaveAllEntities has emitted leaveEntity for two entities
C8_Witness ==
    /\ call.op = "leaveAllEntities"
    /\ \E a, b \in Ids : a # b /\ Emitted(fired, "leaveEntity", a) = 1
                               /\ Emitted(fired, "leaveEntity", b) = 1
    /\ _currentEntitiesInside = <<>>

\* C9: after the slot addingEntity or deletingEntity has run, the next call of
\* checkEnterLeaveEntities (tree there, shutdown not begun) runs the resolver
\* whatever the motion of the viewpoint and the elapsed time.
C9_SignalsForceRecheck ==
    [][(/\ call.op \in {"addingEntity", "deletingEntity"}
        /\ call'.op = "checkEnterLeaveEntities"
        /\ _tree /\ ~_shuttingDown) => call'.recheck]_vars

\* the ids the resolver would report at the current viewpoint
ContainingNow == Range(ContainingIDs(viewPos))

\* C10: while the tree is there, shutdown has not begun and the frames keep
\* coming, a call that skipped is followed by a call that runs the resolver,
\* whether or not the viewpoint moves; and when the entities notified as
\* entered are not those containing the viewpoint (one has come to contain it
\* and has no enterEntity yet, or has ceased to and has no leaveEntity yet),
\* the notifications that make them agree are eventually emitted.
C10_EventuallyRechecked ==
    /\ (Skipped(call) /\ _tree /\ ~_shuttingDown) ~> (Rechecked(call) \/ _shuttingDown)
    /\ (_tree /\ ~_shuttingDown /\ notified # ContainingNow)
           ~> (notified = ContainingNow \/ _shuttingDown)

\* a recheck right after a skipped call, so with the viewpoint where the
\* previous recheck left it and by the elapsed time alone, that emitted an
\* enterEntity
C10_Witness ==
    /\ Rechecked(call)
    /\ call.after = "skip"
    /\ \E e \in Ids : Emitted(fired, "enterEntity", e) = 1

\* ------------------------------------------------------------ LayeredZones
\* the ids of the layers of a set
LayerIds(lz) == {lz.set[i].id : i \in 1..Len(lz.set)}

\* no two layers of the set have the same id
UniqueIds(lz) == \A i, j \in 1..Len(lz.set) : i # j => lz.set[i].id # lz.set[j].id

\* the layers are in ascending order of volume, then of id
Sorted(lz) == \A i, j \in 1..Len(lz.set) : i < j => LayerLess(lz.set[i], lz.set[j])

\* C11: whatever updateZone calls are made, and however the volume and the
\* visibility of the zones change between them, no two layers of
\* _layeredZones have the same id.
C11_UniqueIds == UniqueIds(_layeredZones)

\* update has put a zone back with a volume other than the one it was created with
C11_Witness ==
    /\ call.op = "updateZone"
    /\ \E i \in 1..Len(_layeredZones.set) :
          /\ _layeredZones.set[i].id = Z1
          /\ _layeredZones.set[i].volume # FirstVolume(Z1)
    /\ Len(_layeredZones.set) = 2

\* C12: after every operation (insert, update, clear, move construction), the
\* layers of _layeredZones and of oldLayeredZones are in ascending order of
\* volume, layers of equal volume in ascending order of id.
C12_Sorted == Sorted(_layeredZones) /\ Sorted(oldLayeredZones)

\* three layers, two of them of equal volume
C12_Witness ==
    /\ Len(_layeredZones.set) = 3
    /\ _layeredZones.set[1].volume = _layeredZones.set[2].volume
    /\ _layeredZones.set[1].id # _layeredZones.set[2].id
    /\ Len(oldLayeredZones.set) >= 2

\* the map and the set go together: as many entries as layers, the id of
\* every layer a key, every entry at the layer of its key
InLockStep(lz) ==
    /\ Cardinality(DOMAIN lz.map) = Len(lz.set)
    /\ \A i \in 1..Len(lz.set) : lz.set[i].id \in DOMAIN lz.map
    /\ \A k \in DOMAIN lz.map :
          \E i \in 1..Len(lz.set) : lz.set[i].id = k /\ lz.map[k] = NodeRef(lz.set[i])

\* C13: after every sequence of insert, update, clear and move construction
\* the map and the set of _layeredZones, and of oldLayeredZones, are in lock-step.
C13_LockStep == InLockStep(_layeredZones) /\ InLockStep(oldLayeredZones)

\* C14: insert(layer) for an id the set already holds returns false and leaves
\* the set and the map as they were, whatever the volume of the layer.
C14_InsertPresentId ==
    [][\A id \in Zones :
          (/\ call'.op = "insert"
           /\ insertZone(id)
           /\ id \in LayerIds(_layeredZones)) =>
              (~call'.ret /\ _layeredZones' = _layeredZones)]_vars

\* the set holds the layer l, id and volume
Present(lz, l) == \E i \in 1..Len(lz.set) : lz.set[i] = l

\* C15: once updateZone has run for a zone, running it again for the zone,
\* its volume and visibility unchanged, leaves the set, the map and the marker
\* as they are; and a call for a visible zone whose layer is in the set with
\* the zone's volume changes nothing.
C15_UpdateIdempotent ==
    [][\A id \in Zones :
          (call'.op = "updateZone" /\ updateZone(id)) =>
              /\ UpdateZoneResult(_layeredZones', id) = _layeredZones'
              /\ (Present(_layeredZones, LayeredZone(id)) /\ id \in visible) =>
                     _layeredZones' = _layeredZones]_vars

\* updateZone has run on a set of two layers whose marker is at one of them
C15_Witness ==
    /\ call.op = "updateZone"
    /\ Len(_layeredZones.set) = 2
    /\ _layeredZones.sky.k = "node"
    /\ InLockStep(_layeredZones)

\* the layers of a set whose id is, or is not, id
LayersOf(lz, id) == {l \in Range(lz.set) : l.id = id}
LayersButOf(lz, id) == {l \in Range(lz.set) : l.id # id}

\* C16: updateZone for a zone that contains the viewpoint leaves the layers of
\* the other zones in the set, and of the zone itself its fresh layer when it
\* is visible (inserted when it was absent, erased and reinserted when its
\* volume changed) and no layer when it is invisible (erased when it was
\* present, not inserted when absent); the set is in sorted order and the map
\* goes with it.
C16_UpdateUpserts ==
    [][\A id \in Zones :
          (/\ call'.op = "updateZone"
           /\ updateZone(id)
           /\ id \in entities
           /\ Contains(id, _avatarPosition)) =>
              /\ LayersButOf(_layeredZones', id) = LayersButOf(_layeredZones, id)
              /\ LayersOf(_layeredZones', id) =
                     (IF id \in visible THEN {LayeredZone(id)} ELSE {})
              /\ Sorted(_layeredZones')
              /\ InLockStep(_layeredZones')]_vars

\* updateZone has erased the layer of the invisible Z2, at which the marker
\* was, from a set that held Z1 and Z2
C16_Witness ==
    /\ call.op = "updateZone"
    /\ Z2 \notin visible
    /\ LayerIds(_layeredZones) = {Z1}
    /\ DOMAIN _layeredZones.map = {Z1}
    /\ _layeredZones.sky = INVALID

\* the marker of a set is at end() or at one of its layers
MarkerValid(lz) == lz.sky = END \/ NodeIndex(lz.set, lz.sky) > 0

\* the iterator n steps after begin()
IteratorAt(lz, n) == IF n < Len(lz.set) THEN NodeRef(lz.set[n + 1]) ELSE END

\* C17: _layeredZones.contains(other), other's marker at its offset n, returns
\* true exactly when this set has n layers at least and its first n layers
\* equal, one by one, the first n layers of other; it then puts the marker of
\* this set at offset n, and changes nothing when it returns false.
C17_ContainsPrefix ==
    [][(call'.op = "contains" /\ containsOld /\ MarkerValid(oldLayeredZones)) =>
         LET n == SkyOffset(oldLayeredZones)
             equal == /\ n <= Len(_layeredZones.set)
                      /\ \A i \in 1..n : _layeredZones.set[i] = oldLayeredZones.set[i]
         IN  /\ call'.ret <=> equal
             /\ call'.ret =>
                   _layeredZones' = [_layeredZones EXCEPT !.sky = IteratorAt(_layeredZones, n)]
             /\ ~call'.ret => _layeredZones' = _layeredZones]_vars

\* C18: in every state the renderer reaches, _layeredZones.contains(_layeredZones)
\* returns true and leaves the marker where it is.
C18_ContainsReflexive ==
    \A c \in LZContains(_layeredZones, _layeredZones) : c.result /\ c.lz = _layeredZones

\* C19: the move constructor gives the new object the layers and the map of
\* the source; its marker is at its own end() when the marker of the source
\* was at end(), and at its layer k when the marker of the source was at layer k.
C19_MoveKeepsMarker ==
    [][(call'.op = "LayeredZones::LayeredZones" /\ moveZones) =>
         /\ oldLayeredZones'.set = _layeredZones.set
         /\ oldLayeredZones'.map = _layeredZones.map
         /\ _layeredZones.sky = END => oldLayeredZones'.sky = END
         /\ \A k \in 1..Len(_layeredZones.set) :
               NodeIndex(_layeredZones.set, _layeredZones.sky) = k =>
                   NodeIndex(oldLayeredZones'.set, oldLayeredZones'.sky) = k]_vars

\* an object move-constructed from a set whose marker was at its second layer
C19_Witness ==
    /\ call.op = "LayeredZones::LayeredZones"
    /\ NodeIndex(oldLayeredZones.set, oldLayeredZones.sky) = 2
    /\ _layeredZones.set = <<>>

\* C20: clear() leaves _layeredZones as a freshly constructed LayeredZones,
\* also when it was moved from and its marker is at a layer of the other object.
C20_ClearIsFresh ==
    [][(call'.op = "LayeredZones::clear" /\ clearZones) =>
         _layeredZones' = EmptyLayeredZones]_vars

\* clear() right after the move construction that took the layer of the marker
C20_Witness ==
    /\ call.op = "LayeredZones::clear"
    /\ call.after = "LayeredZones::LayeredZones"
    /\ NodeIndex(oldLayeredZones.set, oldLayeredZones.sky) > 0
    /\ _layeredZones = EmptyLayeredZones

\* ---------------------------------------------------------------- resolver
\* C21: the id list of a performed recheck holds, each once, exactly the
\* entities of the tree within the radius of the viewpoint that are zones or
\* carry a script and whose exact containment test of the viewpoint succeeds;
\* a scripted entity within the radius and outside its boundary is not listed
\* and gets no enterEntity; an entity that is neither a zone nor scripted is
\* not listed, even when it contains the viewpoint.
C21_ContainmentList ==
    [][Rechecked(call') =>
         LET listed == Range(_currentEntitiesInside')
         IN  /\ listed = {e \in entities : /\ Near(e, viewPos)
                                            /\ (IsZone(e) \/ HasScript(e))
                                            /\ Contains(e, viewPos)}
             /\ Len(_currentEntitiesInside') = Cardinality(listed)
             /\ \A e \in entities :
                   (HasScript(e) /\ Near(e, viewPos) /\ ~Contains(e, viewPos)) =>
                       (e \notin listed /\ Emitted(fired', "enterEntity", e) = 0)
             /\ \A e \in entities :
                   (~IsZone(e) /\ ~HasScript(e)) => e \notin listed]_vars

\* a recheck with the scripted box within the radius and outside its
\* boundary, the plain box containing the viewpoint, and both zones listed
C21_Witness ==
    /\ Rechecked(call)
    /\ {S3, B4} \subseteq entities
    /\ Near(S3, viewPos) /\ ~Contains(S3, viewPos)
    /\ Contains(B4, viewPos)
    /\ _currentEntitiesInside = <<Z1, Z2>>
    /\ Emitted(fired, "leaveEntity", S3) = 1

\* the zones of the tree that contain the viewpoint and are visible
ActiveZones ==
    {z \in entities : IsZone(z) /\ Near(z, viewPos) /\ Contains(z, viewPos) /\ z \in visible}

\* the set holds one layer, of the zone's current volume, for each zone of zs
\* and no other layer
LayersAre(lz, zs) ==
    /\ LayerIds(lz) = zs
    /\ Len(lz.set) = Cardinality(zs)
    /\ \A i \in 1..Len(lz.set) : lz.set[i] = LayeredZone(lz.set[i].id)

\* C22, as stated: after a performed recheck _layeredZones holds exactly one
\* layer for each zone that contains the viewpoint and is visible, and none
\* from the previous cycle.
C22_RebuiltSet == [][Rechecked(call') => LayersAre(_layeredZones', ActiveZones)]_vars

\* C22, amended: after a performed recheck _layeredZones holds exactly one
\* layer for each zone that contains the viewpoint, is visible and has a
\* render item in the scene, and none from the previous cycle.
C22_RebuiltFromScene ==
    [][Rechecked(call') =>
         LayersAre(_layeredZones', {z \in ActiveZones : IsValidRenderID(z)})]_vars

\* a recheck that left Z1 alone in the set, with Z2 around the viewpoint,
\* rendered and hidden
C22_Witness ==
    /\ Rechecked(call)
    /\ Z2 \in entities /\ Contains(Z2, viewPos) /\ IsValidRenderID(Z2)
    /\ Z2 \notin visible
    /\ Z2 \in notified
    /\ LayerIds(_layeredZones) = {Z1}

\* the selection applyLayeredZones builds from a set: the render item of each
\* layer, in the order of the set
SelectionOf(lz) == [i \in 1..Len(lz.set) |-> RenderItemID(lz.set[i].id)]

\* C23: a performed recheck that finds the previous and the rebuilt set both
\* empty returns false and publishes nothing; one that finds exactly one of
\* them empty returns true and hands the rebuilt set to the publisher, which
\* enqueues its selection when the scene is there; contains() is not
\* consulted in either case, so the marker stays at end() and the outcome is
\* the only one.
C23_EmptySets ==
    [][Rechecked(call') =>
         LET oldEmpty == _layeredZones.set = <<>>
             newEmpty == _layeredZones'.set = <<>>
         IN  /\ (oldEmpty /\ newEmpty) =>
                    (~call'.ret /\ rankedZones' = rankedZones /\ _layeredZones'.sky = END)
             /\ (oldEmpty # newEmpty) =>
                    /\ call'.ret
                    /\ scene => rankedZones' = SelectionOf(_layeredZones')
                    /\ _layeredZones'.sky = END
                    /\ Cardinality(FindBestZone(viewPos)) = 1]_vars

\* a recheck that found no active zone after a cycle that had some, and
\* published the empty selection
C23_Witness ==
    /\ Rechecked(call)
    /\ call.ret
    /\ scene
    /\ _layeredZones.set = <<>>
    /\ rankedZones = <<>>
    /\ Zones \cap notified # {}

\* the ids of the layers of a set, in the order of the set
Stack(lz) == [i \in 1..Len(lz.set) |-> lz.set[i].id]

\* C24: a performed recheck returns false only when the rebuilt set holds the
\* zones of the previous cycle's set in the same order; when the two stacks
\* differ it returns true and the rebuilt set goes to the publisher; a recheck
\* that returns false publishes nothing.
C24_ChangeDetected ==
    [][Rechecked(call') =>
         LET same == Stack(_layeredZones') = Stack(_layeredZones)
         IN  /\ ~call'.ret => same
             /\ ~same => (call'.ret /\ (scene => rankedZones' = SelectionOf(_layeredZones')))
             /\ ~call'.ret => rankedZones' = rankedZones]_vars

\* ---------------------------------------------------------------- publisher
\* the step is a recheck that called applyLayeredZones (line 272)
Published == Rechecked(call') /\ call'.ret

\* C25: applyLayeredZones, the scene being there, enqueues one transaction,
\* which resets the selection "RankedZones" to a list of exactly one render
\* item id for each layer of _layeredZones, in the order of the set, the
\* layer of the smallest volume first.
C25_PublishesInOrder ==
    [][(Published /\ scene) =>
         LET ts == Transactions(_layeredZones')
             layers == _layeredZones'.set
         IN  /\ Len(ts) = 1
             /\ ts[1].selection = "RankedZones"
             /\ Len(ts[1].list) = Len(layers)
             /\ \A i \in 1..Len(layers) : ts[1].list[i] = RenderItemID(layers[i].id)
             /\ \A i, j \in 1..Len(layers) : i < j => layers[i].volume <= layers[j].volume
             /\ rankedZones' = ts[1].list]_vars

\* a recheck that published the items of Z2 and Z1, in that order
C25_Witness ==
    /\ Rechecked(call)
    /\ call.ret
    /\ scene
    /\ rankedZones = <<RenderItemID(Z2), RenderItemID(Z1)>>
    /\ Stack(_layeredZones) = <<Z2, Z1>>

\* C26: a call of applyLayeredZones either enqueues one transaction that
\* replaces the selection by the whole list of the set, or, the scene not
\* being there, enqueues nothing and leaves the selection as it was; and no
\* step of the renderer ever leaves the selection at anything but its
\* previous value or the whole list of the set.
C26_AllOrNothing ==
    [][/\ Published =>
            IF scene
            THEN /\ Len(Transactions(_layeredZones')) = 1
                 /\ rankedZones' = SelectionOf(_layeredZones')
            ELSE /\ Transactions(_layeredZones') = <<>>
                 /\ rankedZones' = rankedZones
       /\ rankedZones' \in {rankedZones, SelectionOf(_layeredZones')}]_vars

\* a recheck that returned true without a scene: the selection still holds
\* the two items published before, the set holds other zones
C26_Witness ==
    /\ Rechecked(call)
    /\ call.ret
    /\ ~scene
    /\ Len(rankedZones) = 2
    /\ rankedZones # SelectionOf(_layeredZones)

\* ---------------------------------------------------------- the tree's lock
\* the owner thread is inside the lambda of line 221, between the radius
\* query and the end of the loop of containment tests
InsideLambda == pc \in {"findEntities", "loop"}

\* C27: in findBestZoneAndMaybeContainingEntities the read lock is held from
\* before the radius query until the last containment test is done, and no
\* write of the tree comes in between; the lock is given back on each of the
\* three ways out of the lambda; the notifications and script calls are
\* issued after that, without the lock.
C27_ReadLockScope ==
    /\ [](InsideLambda => treeLock = "read")
    /\ [][InsideLambda => (entities' = entities /\ treeLock' # "write")]_vars
    /\ [][call'.op = "unlock" =>
            /\ local'.exit \in {"bothEmpty", "equivalent", "applied"}
            /\ treeLock' = "free"]_vars
    /\ [](pc \in {"idle", "notify"} => treeLock # "read")
    /\ [][fired' # <<>> => (treeLock # "read" /\ treeLock' # "read")]_vars

\* the lambda was left by the return of line 267 and the network thread is
\* writing the tree before the notifications are out
C27_Witness ==
    /\ pc = "notify"
    /\ local.exit = "equivalent"
    /\ local.ids # <<>>
    /\ treeLock = "write"

\* C28: every containment test of an entity taken from the tree, in a
\* recheck and in updateZone, runs with the read lock held, and the tree is
\* not written between the lookup of the zone in updateZone and its test.
C28_TestsUnderLock ==
    /\ [][call'.op = "entity->contains" => treeLock = "read"]_vars
    /\ [][pc = "updateZone" => (entities' = entities /\ treeLock' # "write")]_vars

\* ------------------------------------------------------- missing resources
\* updateZone(id) finds no zone under the id: the tree holds no entity of
\* that id, or one that is no zone
Unresolved(id) == ~(id \in entities /\ IsZone(id))

\* C29: checkEnterLeaveEntities called without a tree, or once shutdown has
\* begun, returns false, fires nothing and leaves the stored position, the
\* time of the last check, the containment set and _layeredZones as they
\* are; updateZone(id) for an id that resolves to no zone of the tree changes
\* nothing.
C29_ShortCircuit ==
    [][/\ \A d \in 0..MaxStep :
             (/\ call'.op = "checkEnterLeaveEntities"
              /\ checkEnterLeaveEntities(d)
              /\ (~_tree \/ _shuttingDown)) =>
                 /\ NothingDone
                 /\ sinceZoneCheck' = Saturated(sinceZoneCheck + d)
       /\ \A id \in Ids :
             (call'.op = "updateZone" /\ updateZone(id) /\ Unresolved(id)) =>
                 /\ fired' = <<>>
                 /\ UNCHANGED <<_layeredZones, rankedZones, _currentEntitiesInside,
                                _avatarPosition, sinceZoneCheck, notified>>]_vars

\* a call of checkEnterLeaveEntities after shutdown, long after the last
\* check, that came right after updateZone for an id the tree no longer holds
C29_Witness ==
    /\ Skipped(call)
    /\ call.after = "updateZone"
    /\ _shuttingDown
    /\ entities = {}
    /\ sinceZoneCheck > ZONE_CHECK_INTERVAL

\* ----------------------------------------------------------- frame effects
\* C30: forceRecheckEntities stores the displaced position and changes
\* nothing else: the time of the last check, the containment set and
\* _layeredZones (layers, map, marker) stay, nothing is fired; and only a
\* performed recheck sets the time of the last check: over any other step
\* the time elapsed since then stays or, when the clock is read, grows.
C30_ForceRecheckFrame ==
    [][/\ call'.op = "forceRecheckEntities" =>
             /\ _avatarPosition' = VecAddScalar(viewPos, TREE_SCALE)
             /\ fired' = <<>>
             /\ UNCHANGED <<sinceZoneCheck, _currentEntitiesInside, _layeredZones,
                            rankedZones, notified, _entitiesInScene>>
       /\ ~Rechecked(call') =>
             IF call'.op = "checkEnterLeaveEntities"
             THEN sinceZoneCheck' >= sinceZoneCheck
             ELSE sinceZoneCheck' = sinceZoneCheck]_vars

\* forceRecheckEntities called soon after a recheck that found two zones
C30_Witness ==
    /\ call.op = "forceRecheckEntities"
    /\ sinceZoneCheck \in 1..ZONE_CHECK_INTERVAL
    /\ _currentEntitiesInside # <<>>
    /\ Len(_layeredZones.set) = 2
    /\ _avatarPosition # viewPos

\* ------------------------------------------------------------- invariants
\* C31: with the scene there, after every performed recheck, whatever it
\* returned and also when clear() has emptied _layeredZones before it, the
\* selection "RankedZones" last published lists the zones of _layeredZones,
\* in the order of the set.
C31_SelectionMatchesSet ==
    [][(Rechecked(call') /\ scene) => rankedZones' = SelectionOf(_layeredZones')]_vars

\* C32: the marker _skyboxLayer of _layeredZones is at end() or at a layer the
\* set holds in every state, whatever the interleaving of rechecks and of
\* updateZone(): in particular updateZone(), which may erase a layer, takes a
\* set whose marker is live to a set whose marker is live, so that the set the
\* next recheck displaces and hands to contains() has a live marker too.
C32_MarkerLive ==
    [][(call'.op = "updateZone" /\ MarkerValid(_layeredZones)) =>
          /\ MarkerValid(_layeredZones')
          /\ MarkerValid(LZMoved(_layeredZones'))]_vars

\* C33: updateZone(id) tests the zone against a position of the viewpoint,
\* never against the position forceRecheckEntities() writes; so, when a visible
\* zone containing the viewpoint has just been added (addingEntity, which
\* forces the recheck), updateZone(id) leaves the zone in _layeredZones.
C33_UpdateZoneAtViewpoint ==
    [][\A id \in Zones :
          (call'.op = "updateZone" /\ updateZone(id) /\ id \in entities) =>
              /\ _avatarPosition \in ViewPoints
              /\ (/\ call.op = "addingEntity"
                  /\ id \in visible
                  /\ Contains(id, viewPos)) => id \in LayerIds(_layeredZones')]_vars

\* ------------------------------------------------------- engine attachment
\* C34: no operation calls a method of the script engine while none is
\* attached: not the enter/leave notifications, not the hover, click, press
\* and release handlers, not the replay of holdingClickOnEntity in update(),
\* not the unload in checkAndCallPreload().
C34_NoCallWithoutEngine ==
    [][\A i \in 1..Len(fired') : fired'[i].sig = "call" => _entitiesScriptEngine]_vars

C36_IdleSurfaceReleased ==
    [][/\ \A w \in WebIds, now \in 0..MaxClock :
             (/\ call'.op = "RenderableWebEntityItem::update"
              /\ now <= clock
              /\ WebUpdate(w, now)
              /\ w \in _webSurface) =>
                 /\ w \notin _webSurface' => now - _lastRenderTime[w] > MAX_NO_RENDER_INTERVAL
                 /\ _lastRenderTime[w] >= now => w \in _webSurface'
       /\ \A w \in WebIds :
             (/\ call'.op = "render"
              /\ WebRender(w, TRUE)
              /\ w \notin _webSurface
              /\ ~TooManyWebViews(_currentWebCount)) => w \in _webSurface']_vars

====
